---- MODULE Spec2Model ----
(***************************************************************************)
(* Model of the Mega-Sena dashboard (megasenav0.7.py): the fresh           *)
(* download-and-process pass of load_and_process_data, the prize           *)
(* aggregation of process_premios_dataframe, the repetition index of       *)
(* analisar_repeticao_jogos and the canonical key of normalize_game.       *)
(*                                                                         *)
(* A Python str is a sequence of one-character strings; a JSON value that  *)
(* may be an int or a str is a record [kind, n, s]; an optional field is   *)
(* a record with a `present` flag (absent key or JSON null: .get gives     *)
(* None).                                                                  *)
(***************************************************************************)
EXTENDS Integers, Sequences, FiniteSets, TLC

VARIABLES
    pc,                  \* position of the page script / of the function under study
    caminho,             \* path load_and_process_data took: "none", "fresh", "erro"
    data_bruta,          \* the raw draw list returned by load_and_process_data
    df_premios_raw,      \* the winner rows (registros_premios as a table)
    df_analise_premios,  \* the prize aggregate
    df_analise_dezenas,  \* the frequency table
    total_repeticoes,    \* analisar_repeticao_jogos()[0]
    mapa_sorteios,       \* analisar_repeticao_jogos()[1]
    csv_premios,         \* the file megasena_premios_municipios.csv
    csv_dezenas,         \* the file megasena_dezenas_frequencia.csv
    jogo_a, jogo_b,      \* two arguments of normalize_game
    chave_a, chave_b,    \* their canonical keys
    secao_premios,       \* what the prize section of the page shows
    pedidos,             \* what the API answered to the requests of the call
    analise_geral,       \* what analisar_sorteios_gerais returned
    num_jogos,           \* the argument num_jogos of sugerir_jogos
    df_sorted,           \* its table sorted by count
    jogos_len,           \* the lengths of jogos_mais, jogos_menos and jogos_misto
    jogo_norm,           \* the key the current iteration appended to its list
    parte_top,           \* the sample of line 301, until line 302 is run
    sugestoes,           \* what sugerir_jogos returned: "vazio" for {}, "dict"
    resultado,           \* what the last call of verificar_sugestao_historico returned
    consultas,           \* the keys verificar_sugestao_historico was called with
    session_state,       \* st.session_state: 'jogos_sugeridos', 'last_num_sugestoes'
    num_sugestoes,       \* the value of the slider in this rerun of the page
    botao,               \* the button was clicked for this rerun
    exibido,             \* the suggestions the last run of the page showed, for which
                         \* slider value, and the slider value of the run before it
    pizza,               \* what the last call of plot_municipios_por_estado gave
    execucao             \* the number of the server run

vars == <<pc, caminho, data_bruta, df_premios_raw, df_analise_premios,
          df_analise_dezenas, total_repeticoes, mapa_sorteios,
          csv_premios, csv_dezenas,
          jogo_a, jogo_b, chave_a, chave_b,
          secao_premios, pedidos, analise_geral, execucao,
          num_jogos, df_sorted, jogos_len, jogo_norm, parte_top, sugestoes,
          resultado, consultas, session_state, num_sugestoes, botao, exibido,
          pizza>>

\* the variables of the suggestion section of the page
pagina == <<resultado, consultas, session_state, num_sugestoes, botao, exibido, pizza>>

\* the variables of sugerir_jogos
sugeridas == <<num_jogos, df_sorted, jogos_len, jogo_norm, parte_top, sugestoes>>

\* the variables normalize_game and the aggregator leave alone
outras == <<secao_premios, pedidos, analise_geral, execucao, sugeridas, pagina>>

\* a key of st.session_state that was never assigned
NaoGuardado == [present |-> FALSE, n |-> 0, amostra |-> 0]

InitPagina ==
    /\ resultado = [sim |-> FALSE, concursos |-> <<>>]
    /\ consultas = <<>>
    /\ session_state = [jogos_sugeridos |-> NaoGuardado, last_num_sugestoes |-> NaoGuardado]
    /\ num_sugestoes = 0
    /\ botao = FALSE
    /\ exibido = [present |-> FALSE, num_sugestoes |-> 0, antes |-> 0, jogos |-> NaoGuardado]
    /\ pizza = [retorno |-> "none", estado |-> <<>>, top_n |-> 0, df_pizza |-> <<>>]

InitOutras ==
    /\ secao_premios = "none"
    /\ pedidos = <<>>
    /\ analise_geral = [retorno |-> "none", total_sorteios |-> 0,
                        primeiro_sorteio |-> <<>>, ultimo_sorteio |-> <<>>]
    /\ execucao = 1
    /\ num_jogos = 0
    /\ df_sorted = <<>>
    /\ jogos_len = [mais |-> 0, menos |-> 0, misto |-> 0]
    /\ jogo_norm = <<>>
    /\ parte_top = <<>>
    /\ sugestoes = "none"
    /\ InitPagina

----------------------------------------------------------------------------
(* Bounds of the model *)

\* longest draw list the API returns
MaxDraws == 3

\* most rows of a winner table handed directly to process_premios_dataframe
MaxRows == 2

\* longest draw list the API returns in the runs that follow one another
MaxCacheDraws == 2

\* most server runs that follow one another on the same two files
MaxRuns == 2

\* most games sugerir_jogos is asked for in each category
MaxSugestoes == 2

\* most suggestions checked against the history in one run of the page
MaxConsultas == 2

\* largest value the suggestion slider is moved to
MaxSlider == 4

\* the outcomes of the random source that a call of sugerir_jogos is told apart by
MaxAmostras == 2

\* most rows of a winner table whose aggregate is drawn as a pie
MaxLinhasPizza == 4

----------------------------------------------------------------------------
(* Python strings *)

DigitChars == <<"0", "1", "2", "3", "4", "5", "6", "7", "8", "9">>

UpperChars == <<"A", "B", "C", "D", "E", "F", "G", "H", "I", "J", "K", "L", "M",
                "N", "O", "P", "Q", "R", "S", "T", "U", "V", "W", "X", "Y", "Z">>

LowerChars == <<"a", "b", "c", "d", "e", "f", "g", "h", "i", "j", "k", "l", "m",
                "n", "o", "p", "q", "r", "s", "t", "u", "v", "w", "x", "y", "z">>

IndexIn(c, chars) == CHOOSE i \in 1..Len(chars) : chars[i] = c

IsIn(c, chars) == \E i \in 1..Len(chars) : chars[i] = c

\* the code point of a character (ASCII)
Ord(c) ==
    IF IsIn(c, DigitChars) THEN 47 + IndexIn(c, DigitChars)
    ELSE IF IsIn(c, UpperChars) THEN 64 + IndexIn(c, UpperChars)
    ELSE IF IsIn(c, LowerChars) THEN 96 + IndexIn(c, LowerChars)
    ELSE IF c = " " THEN 32
    ELSE IF c = "+" THEN 43
    ELSE IF c = "-" THEN 45
    ELSE 47 \* "/"

\* s < t for Python strings: lexicographic by code point, a proper prefix first
RECURSIVE StrLess(_, _)
StrLess(s, t) ==
    IF t = <<>> THEN FALSE
    ELSE IF s = <<>> THEN TRUE
    ELSE IF Ord(Head(s)) # Ord(Head(t)) THEN Ord(Head(s)) < Ord(Head(t))
    ELSE StrLess(Tail(s), Tail(t))

\* str.upper()
UpperChar(c) == IF IsIn(c, LowerChars) THEN UpperChars[IndexIn(c, LowerChars)] ELSE c

StrUpper(s) == [i \in 1..Len(s) |-> UpperChar(s[i])]

\* str.strip(): leading and trailing whitespace removed
RECURSIVE LStrip(_)
LStrip(s) == IF s # <<>> /\ Head(s) = " " THEN LStrip(Tail(s)) ELSE s

RECURSIVE RStrip(_)
RStrip(s) ==
    IF s # <<>> /\ s[Len(s)] = " " THEN RStrip(SubSeq(s, 1, Len(s) - 1)) ELSE s

StrStrip(s) == RStrip(LStrip(s))

\* str(n) of a non-negative int
RECURSIVE StrOfInt(_)
StrOfInt(n) ==
    IF n < 10 THEN <<DigitChars[n + 1]>>
    ELSE StrOfInt(n \div 10) \o <<DigitChars[(n % 10) + 1]>>

\* int(s) of a string of decimal digits
RECURSIVE IntOfStr(_)
IntOfStr(s) ==
    IF s = <<>> THEN 0
    ELSE 10 * IntOfStr(SubSeq(s, 1, Len(s) - 1)) + (IndexIn(s[Len(s)], DigitChars) - 1)

RECURSIVE Zeros(_)
Zeros(k) == IF k <= 0 THEN <<>> ELSE <<"0">> \o Zeros(k - 1)

\* str.zfill(width): zeros on the left, after a leading sign
Zfill(s, width) ==
    IF Len(s) >= width THEN s
    ELSE IF s # <<>> /\ Head(s) \in {"+", "-"}
         THEN <<Head(s)>> \o Zeros(width - Len(s)) \o Tail(s)
         ELSE Zeros(width - Len(s)) \o s

\* sep.join(parts)
RECURSIVE StrJoin(_, _)
StrJoin(sep, parts) ==
    IF parts = <<>> THEN <<>>
    ELSE IF Len(parts) = 1 THEN parts[1]
    ELSE parts[1] \o sep \o StrJoin(sep, Tail(parts))

\* sorted(list of str): insertion of each element after the elements not above it
RECURSIVE InsertSorted(_, _)
InsertSorted(x, sq) ==
    IF sq = <<>> THEN <<x>>
    ELSE IF StrLess(x, Head(sq)) THEN <<x>> \o sq
    ELSE <<Head(sq)>> \o InsertSorted(x, Tail(sq))

RECURSIVE Sorted(_)
Sorted(sq) ==
    IF sq = <<>> THEN <<>>
    ELSE InsertSorted(sq[Len(sq)], Sorted(SubSeq(sq, 1, Len(sq) - 1)))

----------------------------------------------------------------------------
(* JSON values *)

PyInt(k) == [kind |-> "int", n |-> k, s |-> <<>>]

PyStr(t) == [kind |-> "str", n |-> 0, s |-> t]

\* str(d) of an int or a str
PyStrOf(d) == IF d.kind = "int" THEN StrOfInt(d.n) ELSE d.s

Ausente == [present |-> FALSE, list |-> <<>>]

Lista(l) == [present |-> TRUE, list |-> l]

\* truthiness of a list-valued field: not None and not empty
Truthy(campo) == campo.present /\ campo.list # <<>>

----------------------------------------------------------------------------
(* normalize_game *)

\* normalize_game without the sort: the elements joined in the order given
normalize_game_unsorted(jogo) ==
    StrJoin(<<"-">>, [i \in 1..Len(jogo) |-> Zfill(PyStrOf(jogo[i]), 2)])

normalize_game(jogo) ==
    LET jogo_str == [i \in 1..Len(jogo) |-> Zfill(PyStrOf(jogo[i]), 2)]
    IN  StrJoin(<<"-">>, Sorted(jogo_str))

----------------------------------------------------------------------------
(* Configuration *)

\* range(1, 61): the numbers of the game are 1..NumDezenas
NumDezenas == 60

\* TODAS_DEZENAS = [str(i).zfill(2) for i in range(1, 61)]
TODAS_DEZENAS == [i \in 1..NumDezenas |-> Zfill(StrOfInt(i), 2)]

\* the same list built with range(1, 60)
TODAS_DEZENAS_short == [i \in 1..(NumDezenas - 1) |-> Zfill(StrOfInt(i), 2)]

Range(sq) == {sq[i] : i \in 1..Len(sq)}

NA == <<"N", "/", "A">>

\* a missing cell of a table (NaN), as pd.read_csv gives for an empty field
NaN == <<"nan">>

\* ['--', 'XX', 'N/A', '', None]; the None stands for a missing state code,
\* which isin takes out or, failing that, the two groupby of lines 32 and 34
UFS_INVALIDAS == {<<"-", "-">>, <<"X", "X">>, NA, <<>>, NaN}

----------------------------------------------------------------------------
(* process_premios_dataframe *)

\* df_premios_raw['uf'] = df_premios_raw['uf'].str.strip(), on the caller's table
StripUF(tabela) ==
    [i \in 1..Len(tabela) |-> [tabela[i] EXCEPT !.uf = StrStrip(tabela[i].uf)]]

UFValida(linha) == linha.uf \notin UFS_INVALIDAS

\* the filter applied to the table as given, the strip applied afterwards
FiltrarUFs_before_strip(tabela) == StripUF(SelectSeq(tabela, UFValida))

\* lines 24-27: strip the state code, then drop the invalid ones
FiltrarUFs(tabela) == SelectSeq(StripUF(tabela), UFValida)

ChaveDe(linha) == [uf |-> linha.uf, municipio |-> linha.municipio]

ChaveMenor(k1, k2) ==
    \/ StrLess(k1.uf, k2.uf)
    \/ k1.uf = k2.uf /\ StrLess(k1.municipio, k2.municipio)

\* groupby sorts the group keys
RECURSIVE OrdenarChaves(_)
OrdenarChaves(chaves) ==
    IF chaves = {} THEN <<>>
    ELSE LET m == CHOOSE k \in chaves : \A o \in chaves \ {k} : ChaveMenor(k, o)
         IN  <<m>> \o OrdenarChaves(chaves \ {m})

\* lines 32-35: groupby(['uf','municipio']).size(), uf_municipio, and the
\* left merge with groupby('uf').size(); .size() is the number of rows of a
\* group, and groupby leaves out the rows with a missing key
Agregar(tabela) ==
    LET chaves == OrdenarChaves({ChaveDe(tabela[i]) :
                    i \in {n \in 1..Len(tabela) : tabela[n].municipio # NaN}})
    IN  [j \in 1..Len(chaves) |->
            LET k == chaves[j]
            IN  [uf |-> k.uf,
                 municipio |-> k.municipio,
                 vezes_premiado |->
                    Cardinality({i \in 1..Len(tabela) : ChaveDe(tabela[i]) = k}),
                 uf_municipio |-> k.uf \o <<" ", "-", " ">> \o k.municipio,
                 total_premios_estado |->
                    Cardinality({i \in 1..Len(tabela) : tabela[i].uf = k.uf})]]

process_premios_dataframe(tabela) ==
    IF tabela = <<>> THEN <<>>
    ELSE LET filtrada == FiltrarUFs(tabela)
         IN  IF filtrada = <<>> THEN <<>> ELSE Agregar(filtrada)

\* the caller's table after the call (the assignment of line 24 is in place)
TabelaAposProcess(tabela) == IF tabela = <<>> THEN <<>> ELSE StripUF(tabela)

----------------------------------------------------------------------------
(* load_and_process_data: the download-and-process pass *)

Quantidade(ganhador) ==
    IF ganhador.quantidade.present THEN ganhador.quantidade.n ELSE 1

\* one row per winner entry, whatever its quantidade
Repetir_once(linha, k) == <<linha>>

RECURSIVE Repetir(_, _)
Repetir(linha, k) == IF k <= 0 THEN <<>> ELSE <<linha>> \o Repetir(linha, k - 1)

\* the cleaning of lines 95-96 with the upper() left out
Limpar_no_upper(texto) == StrStrip(texto)

\* municipio.upper().strip() and uf.upper().strip()
Limpar(texto) == StrStrip(StrUpper(texto))

\* lines 90-105: the rows one winner entry appends to registros_premios
RegistrosDoGanhador(concurso, ganhador) ==
    IF /\ ganhador.municipio.present /\ ganhador.municipio.s # <<>>
       /\ ganhador.uf.present /\ ganhador.uf.s # <<>>
    THEN LET municipio_limpo == Limpar(ganhador.municipio.s)
             uf_limpo == Limpar(ganhador.uf.s)
         IN  IF municipio_limpo # NA /\ uf_limpo # NA
             THEN Repetir([concurso |-> concurso,
                           municipio |-> municipio_limpo,
                           uf |-> uf_limpo], Quantidade(ganhador))
             ELSE <<>>
    ELSE <<>>

RECURSIVE RegistrosDosGanhadores(_, _)
RegistrosDosGanhadores(concurso, ganhadores) ==
    IF ganhadores = <<>> THEN <<>>
    ELSE RegistrosDoGanhador(concurso, Head(ganhadores))
         \o RegistrosDosGanhadores(concurso, Tail(ganhadores))

\* the winner rows read only from a draw that carries its six numbers
RegistrosDoSorteio_needs_dezenas(sorteio) ==
    IF Truthy(sorteio.localGanhadores) /\ Len(sorteio.dezenas.list) = 6
    THEN RegistrosDosGanhadores(sorteio.concurso, sorteio.localGanhadores.list)
    ELSE <<>>

\* lines 87-105
RegistrosDoSorteio(sorteio) ==
    IF Truthy(sorteio.localGanhadores)
    THEN RegistrosDosGanhadores(sorteio.concurso, sorteio.localGanhadores.list)
    ELSE <<>>

\* the count keyed by str(dezena), the zfill left out
ContarDezena_no_zfill(contagem, dezena) ==
    LET dezena_formatada == PyStrOf(dezena)
    IN  IF dezena_formatada \in DOMAIN contagem
        THEN [contagem EXCEPT ![dezena_formatada] = @ + 1]
        ELSE contagem

\* lines 111-113
ContarDezena(contagem, dezena) ==
    LET dezena_formatada == Zfill(PyStrOf(dezena), 2)
    IN  IF dezena_formatada \in DOMAIN contagem
        THEN [contagem EXCEPT ![dezena_formatada] = @ + 1]
        ELSE contagem

RECURSIVE ContarDezenas(_, _)
ContarDezenas(contagem, dezenas) ==
    IF dezenas = <<>> THEN contagem
    ELSE ContarDezenas(ContarDezena(contagem, Head(dezenas)), Tail(dezenas))

\* lines 108-113
ContagemDoSorteio(contagem, sorteio) ==
    IF Truthy(sorteio.dezenas)
    THEN ContarDezenas(contagem, sorteio.dezenas.list)
    ELSE contagem

\* line 81 over range(1, 60)
ContagemInicial_short == [d \in Range(TODAS_DEZENAS_short) |-> 0]

\* line 81: contagem_dezenas = {d: 0 for d in TODAS_DEZENAS}
ContagemInicial == [d \in Range(TODAS_DEZENAS) |-> 0]

\* lines 83-113: the loop over the draws
RECURSIVE LoopSorteios(_, _, _)
LoopSorteios(dados, registros, contagem) ==
    IF dados = <<>>
    THEN [registros_premios |-> registros, contagem_dezenas |-> contagem]
    ELSE LoopSorteios(Tail(dados),
                      registros \o RegistrosDoSorteio(Head(dados)),
                      ContagemDoSorteio(contagem, Head(dados)))

\* lines 132-138: one row per item of contagem_dezenas, in the dict's order
TabelaDezenas(contagem) ==
    LET chaves == SelectSeq(TODAS_DEZENAS, LAMBDA d : d \in DOMAIN contagem)
    IN  [i \in 1..Len(chaves) |->
            [dezena |-> chaves[i],
             ocorrencias |-> contagem[chaves[i]],
             dezena_int |-> IntOfStr(chaves[i])]]

\* a value decoded from JSON that is a key/value object: .get() exists
EhObjeto(valor) == "nao_objeto" \notin DOMAIN valor

\* a municipio/uf value that is a str: .upper() exists
EhTexto(valor) == "nao_texto" \notin DOMAIN valor

\* a quantidade value range() accepts
EhInteiro(valor) == "nao_inteiro" \notin DOMAIN valor

\* lines 90-99 raise on this winner entry: .get of a non-object (line 90),
\* .upper of a truthy non-string (lines 95-96), range of a non-integer (line 99)
GanhadorLevanta(ganhador) ==
    \/ ~EhObjeto(ganhador)
    \/ /\ ganhador.municipio.present /\ ganhador.municipio.s # <<>>
       /\ ganhador.uf.present /\ ganhador.uf.s # <<>>
       /\ \/ ~EhTexto(ganhador.municipio)
          \/ ~EhTexto(ganhador.uf)
          \/ /\ Limpar(ganhador.municipio.s) # NA
             /\ Limpar(ganhador.uf.s) # NA
             /\ ganhador.quantidade.present
             /\ ~EhInteiro(ganhador.quantidade)

\* lines 84-113 raise on this draw: .get of a non-object (line 84), or a
\* winner entry that raises
SorteioLevanta(sorteio) ==
    \/ ~EhObjeto(sorteio)
    \/ /\ Truthy(sorteio.localGanhadores)
       /\ \E j \in 1..Len(sorteio.localGanhadores.list) :
            GanhadorLevanta(sorteio.localGanhadores.list[j])

\* the loop of lines 83-113 raises: nothing in it catches an exception
LoopLevanta(dados) == \E i \in 1..Len(dados) : SorteioLevanta(dados[i])

\* the values load_and_process_data returns (or none, when it raises), the
\* table left in df_premios_raw, and the two files as the call leaves them
Retorno(via, dados, bruta, premios, dezenas, arq_premios, arq_dezenas) ==
    [caminho |-> via, data_bruta |-> dados, premios_raw |-> bruta,
     premios |-> premios, dezenas |-> dezenas,
     csv_premios |-> arq_premios, csv_dezenas |-> arq_dezenas]

\* lines 80-143, as the three values returned and the table left in df_premios_raw
ProcessarFresh(dados) ==
    LET r == LoopSorteios(dados, <<>>, ContagemInicial)
    IN  [registros |-> r.registros_premios,
         premios_raw |-> TabelaAposProcess(r.registros_premios),
         premios |-> process_premios_dataframe(r.registros_premios),
         dezenas |-> TabelaDezenas(r.contagem_dezenas)]

----------------------------------------------------------------------------
(* analisar_repeticao_jogos and verificar_sugestao_historico *)

\* a draw indexed whenever its number list is non-empty, whatever its length
Indexavel_any_length(sorteio) == Truthy(sorteio.dezenas)

\* line 330: if dezenas and len(dezenas) == 6
Indexavel(sorteio) == Truthy(sorteio.dezenas) /\ Len(sorteio.dezenas.list) = 6

\* a repeated key replaces the list instead of growing it
Registrar_overwrite(mapa, jogo_normalizado, concurso) ==
    [k \in DOMAIN mapa \cup {jogo_normalizado} |->
        IF k = jogo_normalizado THEN <<concurso>> ELSE mapa[k]]

\* lines 333-336
Registrar(mapa, jogo_normalizado, concurso) ==
    [k \in DOMAIN mapa \cup {jogo_normalizado} |->
        IF k # jogo_normalizado THEN mapa[k]
        ELSE IF k \in DOMAIN mapa THEN Append(mapa[k], concurso)
        ELSE <<concurso>>]

\* lines 326-336
RECURSIVE ConstruirMapa(_, _)
ConstruirMapa(dados, mapa) ==
    IF dados = <<>> THEN mapa
    ELSE LET sorteio == Head(dados)
         IN  ConstruirMapa(Tail(dados),
                 IF Indexavel(sorteio)
                 THEN Registrar(mapa, normalize_game(sorteio.dezenas.list),
                                sorteio.concurso)
                 ELSE mapa)

\* sum(...) over the values of a dict
RECURSIVE SomaValores(_)
SomaValores(f) ==
    IF DOMAIN f = {} THEN 0
    ELSE LET k == CHOOSE x \in DOMAIN f : TRUE
         IN  f[k] + SomaValores([x \in DOMAIN f \ {k} |-> f[x]])

\* the sum of the lengths of the repeated lists, the first occurrence included
TotalRepeticoes_lengths(mapa) ==
    SomaValores([k \in DOMAIN mapa |->
                    IF Len(mapa[k]) > 1 THEN Len(mapa[k]) ELSE 0])

\* line 340
TotalRepeticoes(mapa) ==
    SomaValores([k \in DOMAIN mapa |->
                    IF Len(mapa[k]) > 1 THEN Len(mapa[k]) - 1 ELSE 0])

\* lines 314-342
analisar_repeticao_jogos(dados) ==
    IF dados = <<>> THEN [total |-> 0, mapa |-> <<>>]
    ELSE LET mapa == ConstruirMapa(dados, <<>>)
         IN  [total |-> TotalRepeticoes(mapa), mapa |-> mapa]

\* lines 344-352: the answer, as found/not found and the contests listed
verificar_sugestao_historico(jogo_normalizado, mapa) ==
    IF jogo_normalizado \in DOMAIN mapa
    THEN [sim |-> TRUE, concursos |-> mapa[jogo_normalizado]]
    ELSE [sim |-> FALSE, concursos |-> <<>>]

----------------------------------------------------------------------------
(* Inputs *)

Ints(nums) == [i \in 1..Len(nums) |-> PyInt(nums[i])]

Padded(nums) == [i \in 1..Len(nums) |-> PyStr(Zfill(StrOfInt(nums[i]), 2))]

Unpadded(nums) == [i \in 1..Len(nums) |-> PyStr(StrOfInt(nums[i]))]

DzA == Lista(Ints(<<4, 8, 15, 16, 23, 42>>))

DzARev == Lista(Ints(<<42, 23, 16, 15, 8, 4>>))

DzAStr == Lista(Unpadded(<<8, 4, 42, 15, 23, 16>>))

DzB == Lista(Padded(<<1, 2, 3, 4, 5, 6>>))

Dz5 == Lista(Ints(<<1, 2, 3, 4, 5>>))

\* the 'dezenas' fields a draw may carry
DezenasChoices == {DzA, DzARev, DzAStr, DzB, Dz5, Ausente}

Texto(t) == [present |-> TRUE, s |-> t]

SemTexto == [present |-> FALSE, s |-> <<>>]

Qtd(k) == [present |-> TRUE, n |-> k]

SemQtd == [present |-> FALSE, n |-> 0]

Ganhador(m, u, q) == [municipio |-> m, uf |-> u, quantidade |-> q]

G1 == Lista(<<Ganhador(Texto(<<" ", "u", "b", " ">>), Texto(<<" ", "s", "p", " ">>), SemQtd)>>)

G2 == Lista(<<Ganhador(Texto(<<"U", "B">>), Texto(<<"S", "P">>), Qtd(2))>>)

G3 == Lista(<<Ganhador(Texto(<<"U", "b">>), Texto(<<"x", "x">>), SemQtd),
              Ganhador(Texto(<<"I", "T">>), Texto(<<"S", "P">>), Qtd(1)),
              Ganhador(Texto(<<"I", "T">>), Texto(<<" ", " ">>), SemQtd)>>)

G4 == Lista(<<Ganhador(Texto(<<"n", "/", "a">>), Texto(<<"R", "J">>), SemQtd),
              Ganhador(Texto(<<"U", "B">>), Texto(<<" ", "-", "-", " ">>), SemQtd),
              Ganhador(SemTexto, Texto(<<"S", "P">>), SemQtd),
              Ganhador(Texto(<<"U", "B">>), Texto(<<"R", "J">>), SemQtd)>>)

\* the draws of the API, without their contest number: each 'dezenas' field
\* without winners, and four draws with winner entries
TiposDeSorteio ==
    {[dezenas |-> d, localGanhadores |-> Ausente] : d \in DezenasChoices}
    \cup {[dezenas |-> Dz5, localGanhadores |-> G1],
          [dezenas |-> DzA, localGanhadores |-> G2],
          [dezenas |-> Ausente, localGanhadores |-> G3],
          [dezenas |-> DzB, localGanhadores |-> G4]}

\* a draw list: draw i carries contest number i
ComConcursos(tipos) ==
    [i \in 1..Len(tipos) |->
        [concurso |-> i, dezenas |-> tipos[i].dezenas,
         localGanhadores |-> tipos[i].localGanhadores]]

ListasDeSorteios ==
    UNION {{ComConcursos(t) : t \in [1..n -> TiposDeSorteio]} : n \in 0..MaxDraws}

\* What the API does with one request. `falha` is "conexao" when
\* requests.get raises (no connection, timeout), "status" when the response
\* has a non-success status, "nenhuma" otherwise; `ok` says that neither
\* requests.get nor raise_for_status raises; `corpo_json` says that
\* response.json() decodes the body, and `json` is what it gives.
RespostaOk(lista) ==
    [ok |-> TRUE, json |-> lista, falha |-> "nenhuma", corpo_json |-> TRUE]

SemConexao ==
    [ok |-> FALSE, json |-> <<>>, falha |-> "conexao", corpo_json |-> FALSE]

\* a non-success response whose body is no JSON document
StatusDeErro ==
    [ok |-> FALSE, json |-> <<>>, falha |-> "status", corpo_json |-> FALSE]

\* the item of a JSON body that is no draw list: not a key/value object
ItemDeErro ==
    [concurso |-> 0, dezenas |-> Ausente, localGanhadores |-> Ausente,
     nao_objeto |-> TRUE]

\* a non-success response whose body is a JSON document (an error report)
StatusDeErroJson ==
    [ok |-> FALSE, json |-> <<ItemDeErro>>, falha |-> "status", corpo_json |-> TRUE]

Falhas == {SemConexao, StatusDeErro, StatusDeErroJson}

Respostas == Falhas \cup {RespostaOk(l) : l \in ListasDeSorteios}

SemArquivo == [existe |-> FALSE, linhas |-> <<>>]

Arquivo(linhas) == [existe |-> TRUE, linhas |-> linhas]

----------------------------------------------------------------------------
(* load_and_process_data: the two passes of a call *)

\* a pass that writes the prize CSV whatever the rows it collected
GravaPremios_always(registros_premios) == TRUE

\* lines 118-122: `if not df_premios_raw.empty:`, the prize CSV is written
\* for a non-empty list of rows only
GravaPremios(registros_premios) == registros_premios # <<>>

\* lines 70-143: the download-and-process pass. An exception of the loop
\* leaves the function before anything is written or returned.
FreshPass(resposta, arq_premios, arq_dezenas) ==
    IF ~resposta.ok
    THEN \* lines 76-78
         Retorno("erro", <<>>, <<>>, <<>>, <<>>, arq_premios, arq_dezenas)
    ELSE IF LoopLevanta(resposta.json)
    THEN Retorno("excecao", <<>>, <<>>, <<>>, <<>>, arq_premios, arq_dezenas)
    ELSE LET f == ProcessarFresh(resposta.json)
         IN  Retorno("fresh", resposta.json, f.premios_raw, f.premios, f.dezenas,
                     IF GravaPremios(f.registros) THEN Arquivo(f.registros)
                                                  ELSE arq_premios,
                     IF f.dezenas # <<>> THEN Arquivo(f.dezenas) ELSE arq_dezenas)

\* the fields pd.read_csv takes for missing among the strings the pass of
\* lines 95-96 can write: '', 'NA', 'NULL', 'N/A'
CsvNA == {<<>>, <<"N", "A">>, <<"N", "U", "L", "L">>, NA}

CelulaLida(texto) == IF texto \in CsvNA THEN NaN ELSE texto

\* line 56: pd.read_csv(file_path_premios)
ReadCsvPremios(arquivo) ==
    [i \in 1..Len(arquivo.linhas) |->
        [concurso |-> arquivo.linhas[i].concurso,
         municipio |-> CelulaLida(arquivo.linhas[i].municipio),
         uf |-> CelulaLida(arquivo.linhas[i].uf)]]

\* lines 59-60: pd.read_csv(file_path_dezenas) reads the column 'dezena' as
\* integers ('01' is 1), and dezena_int is set from it
ReadCsvDezenas(arquivo) ==
    [i \in 1..Len(arquivo.linhas) |->
        [dezena |-> IntOfStr(arquivo.linhas[i].dezena),
         ocorrencias |-> arquivo.linhas[i].ocorrencias,
         dezena_int |-> IntOfStr(arquivo.linhas[i].dezena)]]

\* line 24 raises on a table read from the file: .str needs a column that
\* holds a string, and a column of missing cells only is read as floats
CsvLevanta(arq_premios) ==
    \A i \in 1..Len(arq_premios.linhas) : CelulaLida(arq_premios.linhas[i].uf) = NaN

\* the request of lines 64-65 taken never to raise
RespostaLevanta_never(resposta) == FALSE

\* lines 64-65 raise: requests.get fails, or the body is no JSON document
RespostaLevanta(resposta) == resposta.falha = "conexao" \/ ~resposta.corpo_json

\* lines 53-66: the pass over the two files, when nothing in it raises.
\* The status of the response is not looked at.
CachedPass(resposta, arq_premios, arq_dezenas) ==
    LET lidos == ReadCsvPremios(arq_premios)
    IN  Retorno("cache", resposta.json,
                TabelaAposProcess(lidos), process_premios_dataframe(lidos),
                ReadCsvDezenas(arq_dezenas), arq_premios, arq_dezenas)

----------------------------------------------------------------------------
(* The page script: load, then analyse *)

Init ==
    /\ pc = "inicio"
    /\ InitOutras
    /\ caminho = "none"
    /\ data_bruta = <<>>
    /\ df_premios_raw = <<>>
    /\ df_analise_premios = <<>>
    /\ df_analise_dezenas = <<>>
    /\ total_repeticoes = 0
    /\ mapa_sorteios = <<>>
    /\ csv_premios = SemArquivo
    /\ csv_dezenas = SemArquivo
    /\ jogo_a = <<>>
    /\ jogo_b = <<>>
    /\ chave_a = <<>>
    /\ chave_b = <<>>

\* the call returns (or raises): its values reach the page script
Retornar(ret, respostas) ==
    /\ caminho' = ret.caminho
    /\ data_bruta' = ret.data_bruta
    /\ df_premios_raw' = ret.premios_raw
    /\ df_analise_premios' = ret.premios
    /\ df_analise_dezenas' = ret.dezenas
    /\ csv_premios' = ret.csv_premios
    /\ csv_dezenas' = ret.csv_dezenas
    /\ pedidos' = respostas
    /\ pc' = IF ret.caminho = "excecao" THEN "abortado" ELSE "carregado"

\* load_and_process_data (called at line 365), lines 41-143. @st.cache_data
\* runs the body once per server run. With both files there (line 51) the
\* pass of lines 53-66 is tried first; whatever it raises is caught (lines
\* 67-68) and the download pass follows, with a request of its own.
Carregar(respostas) ==
    /\ pc = "inicio"
    /\ IF csv_premios.existe /\ csv_dezenas.existe /\ ~CsvLevanta(csv_premios)
       THEN \E r1 \in respostas :
                IF ~RespostaLevanta(r1)
                THEN Retornar(CachedPass(r1, csv_premios, csv_dezenas), <<r1>>)
                ELSE \E r2 \in respostas :
                        Retornar(FreshPass(r2, csv_premios, csv_dezenas), <<r1, r2>>)
       ELSE \E r \in respostas :
                Retornar(FreshPass(r, csv_premios, csv_dezenas), <<r>>)
    /\ UNCHANGED <<total_repeticoes, mapa_sorteios, jogo_a, jogo_b, chave_a, chave_b,
                   secao_premios, analise_geral, execucao, sugeridas, pagina>>

\* the call of the first server run, on what the API may answer
LoadAndProcessData == Carregar(Respostas)

\* line 455, inside `if not df_analise_dezenas.empty`
AnalisarRepeticaoJogos ==
    /\ pc = "carregado"
    /\ df_analise_dezenas # <<>>
    /\ LET r == analisar_repeticao_jogos(data_bruta)
       IN  /\ total_repeticoes' = r.total
           /\ mapa_sorteios' = r.mapa
    /\ pc' = "analisado"
    /\ UNCHANGED <<caminho, data_bruta, df_premios_raw, df_analise_premios,
                   df_analise_dezenas, csv_premios, csv_dezenas,
                   jogo_a, jogo_b, chave_a, chave_b, outras>>

Next == LoadAndProcessData \/ AnalisarRepeticaoJogos

Spec == Init /\ [][Next]_vars

----------------------------------------------------------------------------
(* The page script: the suggestions checked against the history *)

\* the dict after a lookup that stores an empty list under a key it misses
MapaAposConsulta_setdefault(jogo_normalizado, mapa) ==
    [k \in DOMAIN mapa \cup {jogo_normalizado} |->
        IF k \in DOMAIN mapa THEN mapa[k] ELSE <<>>]

\* lines 348-350: `in`, [] and join on a plain dict and its lists read them
MapaAposConsulta(jogo_normalizado, mapa) == mapa

\* the keys of the suggestions shown: two that a draw below may have, one
\* that none has
JogosConsultados ==
    {normalize_game(DzA.list), normalize_game(DzB.list),
     normalize_game(Ints(<<7, 8, 9, 10, 11, 12>>))}

ListasDeConsulta ==
    UNION {{ComConcursos(t) :
                t \in [1..n -> {[dezenas |-> d, localGanhadores |-> Ausente] :
                                    d \in {DzA, DzARev, DzB}}]} : n \in 0..2}

RespostasDeConsulta == {SemConexao} \cup {RespostaOk(l) : l \in ListasDeConsulta}

LoadConsulta == Carregar(RespostasDeConsulta)

\* lines 480-483: one pass of the loop over the suggestions of a category
VerificarSugestaoHistorico ==
    /\ pc = "analisado"
    /\ Len(consultas) < MaxConsultas
    /\ \E jogo_normalizado \in JogosConsultados :
           /\ resultado' = verificar_sugestao_historico(jogo_normalizado, mapa_sorteios)
           /\ mapa_sorteios' = MapaAposConsulta(jogo_normalizado, mapa_sorteios)
           /\ consultas' = Append(consultas, jogo_normalizado)
    /\ UNCHANGED <<pc, caminho, data_bruta, df_premios_raw, df_analise_premios,
                   df_analise_dezenas, total_repeticoes, csv_premios, csv_dezenas,
                   jogo_a, jogo_b, chave_a, chave_b,
                   secao_premios, pedidos, analise_geral, execucao, sugeridas,
                   session_state, num_sugestoes, botao, exibido, pizza>>

NextVerificar == LoadConsulta \/ AnalisarRepeticaoJogos \/ VerificarSugestaoHistorico

SpecVerificar == Init /\ [][NextVerificar]_vars

----------------------------------------------------------------------------
(* The download pass on draws of the older record shape *)

\* a winner entry as MegaSenav0.3.py reads it: 'cidade' and 'uf'
GanhadorCidade(c, u) == [cidade |-> c, uf |-> u]

\* the 'rateio' list of a draw: the item of the six hits carries the list
\* 'ganhadores_cidade'
Rateio(ganhadores_cidade) ==
    Lista(<<[acertos |-> 6, ganhadores_cidade |-> Lista(ganhadores_cidade)]>>)

\* UB/SP twice, as two entries of the older shape and as one entry of the
\* newer shape; IT/RJ once in the older shape; no winner
TiposAntigos ==
    {[dezenas |-> DzA, localGanhadores |-> Ausente,
      rateio |-> Rateio(<<GanhadorCidade(Texto(<<"U", "B">>), Texto(<<"S", "P">>)),
                          GanhadorCidade(Texto(<<"U", "B">>), Texto(<<"S", "P">>))>>)],
     [dezenas |-> DzA, localGanhadores |-> G2, rateio |-> Ausente],
     [dezenas |-> DzB, localGanhadores |-> Ausente,
      rateio |-> Rateio(<<GanhadorCidade(Texto(<<"I", "T">>), Texto(<<"R", "J">>))>>)],
     [dezenas |-> DzB, localGanhadores |-> Ausente, rateio |-> Ausente]}

\* a draw list: draw i carries contest number i
ComConcursosERateio(tipos) ==
    [i \in 1..Len(tipos) |->
        [concurso |-> i, dezenas |-> tipos[i].dezenas,
         localGanhadores |-> tipos[i].localGanhadores, rateio |-> tipos[i].rateio]]

ListasAntigas ==
    UNION {{ComConcursosERateio(t) : t \in [1..n -> TiposAntigos]} : n \in 0..MaxDraws}

RespostasAntigas == {RespostaOk(l) : l \in ListasAntigas}

LoadAntigo == Carregar(RespostasAntigas)

NextAntigo == LoadAntigo \/ AnalisarRepeticaoJogos

SpecAntigo == Init /\ [][NextAntigo]_vars

----------------------------------------------------------------------------
(* The repetition index of draws whose six entries are no combination *)

\* six entries with 4 twice; with 61; with 100; with a text that is no number
DzRepetida == Lista(Ints(<<4, 4, 8, 15, 16, 23>>))

DzFora == Lista(Ints(<<4, 8, 15, 16, 23, 61>>))

DzCem == Lista(Ints(<<4, 8, 15, 16, 23, 100>>))

DzNaoNumerica == Lista(Ints(<<4, 8, 15, 16, 23>>) \o <<PyStr(<<"X", "X">>)>>)

TiposDeSeis ==
    {[dezenas |-> d, localGanhadores |-> Ausente] :
        d \in {DzA, DzRepetida, DzFora, DzCem, DzNaoNumerica}}

ListasDeSeis ==
    UNION {{ComConcursos(t) : t \in [1..n -> TiposDeSeis]} : n \in 0..MaxDraws}

RespostasDeSeis == {RespostaOk(l) : l \in ListasDeSeis}

LoadSeis == Carregar(RespostasDeSeis)

NextSeis == LoadSeis \/ AnalisarRepeticaoJogos

SpecSeis == Init /\ [][NextSeis]_vars

----------------------------------------------------------------------------
(* The download pass on draw lists with malformed records *)

\* a winner entry that is no key/value object (a string, a number)
GanhadorNaoObjeto ==
    [municipio |-> SemTexto, uf |-> SemTexto, quantidade |-> SemQtd,
     nao_objeto |-> TRUE]

\* "quantidade": null, or a string or a float
QtdNaoInteira == [present |-> TRUE, n |-> 0, nao_inteiro |-> TRUE]

\* a municipio or uf that is a non-zero number
NaoTexto == [present |-> TRUE, s |-> <<"7">>, nao_texto |-> TRUE]

UBSP(q) == Ganhador(Texto(<<"U", "B">>), Texto(<<"S", "P">>), q)

\* two well-formed draws and five draws with one malformed part each
TiposComDefeito ==
    {[concurso |-> 0, dezenas |-> DzA, localGanhadores |-> G2],
     [concurso |-> 0, dezenas |-> DzB, localGanhadores |-> G1],
     ItemDeErro,
     [concurso |-> 0, dezenas |-> DzA,
      localGanhadores |-> Lista(<<UBSP(SemQtd), GanhadorNaoObjeto>>)],
     [concurso |-> 0, dezenas |-> DzA,
      localGanhadores |-> Lista(<<UBSP(QtdNaoInteira)>>)],
     [concurso |-> 0, dezenas |-> DzA,
      localGanhadores |-> Lista(<<Ganhador(NaoTexto, Texto(<<"S", "P">>), SemQtd)>>)],
     [concurso |-> 0, dezenas |-> DzA,
      localGanhadores |-> Lista(<<Ganhador(Texto(<<"U", "B">>), NaoTexto, Qtd(1))>>)]}

\* a list of such records: record i, when an object, has contest number i
Numerar(tipos) ==
    [i \in 1..Len(tipos) |->
        IF EhObjeto(tipos[i]) THEN [tipos[i] EXCEPT !.concurso = i] ELSE tipos[i]]

ListasComDefeito ==
    UNION {{Numerar(t) : t \in [1..n -> TiposComDefeito]} : n \in 0..MaxDraws}

RespostasComDefeito == {SemConexao} \cup {RespostaOk(l) : l \in ListasComDefeito}

LoadMalformed == Carregar(RespostasComDefeito)

NextMalformed == LoadMalformed \/ AnalisarRepeticaoJogos

SpecMalformed == Init /\ [][NextMalformed]_vars

----------------------------------------------------------------------------
(* Server runs that follow one another: the files of a run are there for the next *)

\* winner entries of one state, one of them with a blank municipality
GW == Lista(<<Ganhador(Texto(<<" ">>), Texto(<<"S", "P">>), SemQtd),
              Ganhador(Texto(<<"U", "B">>), Texto(<<"S", "P">>), SemQtd)>>)

TiposDeCache ==
    {[dezenas |-> DzA, localGanhadores |-> G2],
     [dezenas |-> DzB, localGanhadores |-> GW]}

ListasDeCache ==
    UNION {{ComConcursos(t) : t \in [1..n -> TiposDeCache]} : n \in 0..MaxCacheDraws}

RespostasDeCache == Falhas \cup {RespostaOk(l) : l \in ListasDeCache}

LoadCache == Carregar(RespostasDeCache)

\* the server is started again: nothing of the run before is left but the
\* two files (st.cache_data is per process)
Reiniciar ==
    /\ pc \in {"carregado", "abortado"}
    /\ execucao < MaxRuns
    /\ execucao' = execucao + 1
    /\ pc' = "inicio"
    /\ caminho' = "none"
    /\ data_bruta' = <<>>
    /\ df_premios_raw' = <<>>
    /\ df_analise_premios' = <<>>
    /\ df_analise_dezenas' = <<>>
    /\ pedidos' = <<>>
    /\ UNCHANGED <<total_repeticoes, mapa_sorteios, csv_premios, csv_dezenas,
                   jogo_a, jogo_b, chave_a, chave_b, secao_premios, analise_geral,
                   sugeridas, pagina>>

NextCache == LoadCache \/ Reiniciar

SpecCache == Init /\ [][NextCache]_vars

----------------------------------------------------------------------------
(* Server runs that follow one another: draws with and without winner rows *)

\* a winner entry that the test of line 98 leaves out
GNA == Lista(<<Ganhador(Texto(<<"n", "/", "a">>), Texto(<<"S", "P">>), SemQtd)>>)

\* a winner entry with a state code that only process_premios_dataframe drops
GXX == Lista(<<Ganhador(Texto(<<"U", "B">>), Texto(<<"X", "X">>), SemQtd)>>)

TiposDeArquivo ==
    {[dezenas |-> DzA, localGanhadores |-> Ausente],
     [dezenas |-> DzB, localGanhadores |-> GNA],
     [dezenas |-> DzB, localGanhadores |-> GXX],
     [dezenas |-> DzA, localGanhadores |-> G2]}

ListasDeArquivo ==
    UNION {{ComConcursos(t) : t \in [1..n -> TiposDeArquivo]} : n \in 0..MaxCacheDraws}

RespostasDeArquivo == {SemConexao} \cup {RespostaOk(l) : l \in ListasDeArquivo}

LoadArquivo == Carregar(RespostasDeArquivo)

NextArquivo == LoadArquivo \/ Reiniciar

SpecArquivo == Init /\ [][NextArquivo]_vars

----------------------------------------------------------------------------
(* normalize_game applied to a list and to a permutation of it *)

\* the permutations of the six positions
Perms6 == {p \in [1..6 -> 1..6] : \A i, j \in 1..6 : i # j => p[i] # p[j]}

BaseJogos == {<<5, 1, 30, 12, 45, 9>>, <<4, 8, 15, 16, 23, 42>>, <<7, 60, 7, 3, 10, 1>>}

Formas == {"int", "padded", "unpadded"}

Representar(nums, forma) ==
    IF forma = "int" THEN Ints(nums)
    ELSE IF forma = "padded" THEN Padded(nums)
    ELSE Unpadded(nums)

InitNormalize ==
    /\ pc = "normalizar"
    /\ InitOutras
    /\ \E base \in BaseJogos, p \in Perms6, fa \in Formas, fb \in Formas :
        /\ jogo_a = Representar(base, fa)
        /\ jogo_b = Representar([i \in 1..6 |-> base[p[i]]], fb)
    /\ chave_a = <<>>
    /\ chave_b = <<>>
    /\ caminho = "none"
    /\ data_bruta = <<>>
    /\ df_premios_raw = <<>>
    /\ df_analise_premios = <<>>
    /\ df_analise_dezenas = <<>>
    /\ total_repeticoes = 0
    /\ mapa_sorteios = <<>>
    /\ csv_premios = SemArquivo
    /\ csv_dezenas = SemArquivo

NormalizeGame ==
    /\ pc = "normalizar"
    /\ chave_a' = normalize_game(jogo_a)
    /\ chave_b' = normalize_game(jogo_b)
    /\ pc' = "normalizado"
    /\ UNCHANGED <<caminho, data_bruta, df_premios_raw, df_analise_premios,
                   df_analise_dezenas, total_repeticoes, mapa_sorteios,
                   csv_premios, csv_dezenas, jogo_a, jogo_b, outras>>

NextNormalize == NormalizeGame

SpecNormalize == InitNormalize /\ [][NextNormalize]_vars

----------------------------------------------------------------------------
(* process_premios_dataframe applied to a winner table *)

UFsCruas ==
    {<<"S", "P">>, <<" ", "s", "p", " ">>, <<"R", "J">>,
     <<"X", "X">>, <<" ", "X", "X">>, <<"x", "x">>,
     NA, <<"N", "/", "A", " ">>, <<"-", "-">>, <<" ", "-", "-", " ">>,
     <<>>, <<" ", " ">>}

MunicipiosCrus == {<<"U", "B">>, <<"I", "T">>}

LinhasCruas ==
    {[concurso |-> 1, municipio |-> m, uf |-> u] : m \in MunicipiosCrus, u \in UFsCruas}

TabelasCruas == UNION {[1..n -> LinhasCruas] : n \in 0..MaxRows}

InitAggregator ==
    /\ pc = "tabela"
    /\ InitOutras
    /\ df_premios_raw \in TabelasCruas
    /\ df_analise_premios = <<>>
    /\ caminho = "none"
    /\ data_bruta = <<>>
    /\ df_analise_dezenas = <<>>
    /\ total_repeticoes = 0
    /\ mapa_sorteios = <<>>
    /\ csv_premios = SemArquivo
    /\ csv_dezenas = SemArquivo
    /\ jogo_a = <<>>
    /\ jogo_b = <<>>
    /\ chave_a = <<>>
    /\ chave_b = <<>>

\* a call of process_premios_dataframe on the table, and a second call on the
\* same table object
ProcessPremiosDataframe ==
    /\ pc \in {"tabela", "agregado"}
    /\ df_analise_premios' = process_premios_dataframe(df_premios_raw)
    /\ df_premios_raw' = TabelaAposProcess(df_premios_raw)
    /\ pc' = IF pc = "tabela" THEN "agregado" ELSE "reagregado"
    /\ UNCHANGED <<caminho, data_bruta, df_analise_dezenas, total_repeticoes,
                   mapa_sorteios, csv_premios, csv_dezenas,
                   jogo_a, jogo_b, chave_a, chave_b, outras>>

\* line 523: min_value of the slider of the top municipalities
SliderMunicipiosMin == 5

\* line 525: its default value
SliderMunicipiosValue == 10

\* line 518: the cap of its max_value
SliderMunicipiosCap == 50

Min(a, b) == IF a <= b THEN a ELSE b

\* the prize section built without the emptiness test of line 501
SecaoPremiosDe_no_empty_test(df) ==
    LET max_municipios == Min(SliderMunicipiosCap, Len(df))
    IN  IF SliderMunicipiosMin <= SliderMunicipiosValue
           /\ SliderMunicipiosValue <= max_municipios
        THEN "graficos"
        ELSE "excecao_slider"

\* lines 501-604: the KPIs, sliders and charts of a non-empty aggregate, or
\* the st.error of line 604. st.slider raises when its default value is not
\* between min_value and max_value (lines 521-528).
SecaoPremiosDe(df) ==
    IF df # <<>>
    THEN LET max_municipios == Min(SliderMunicipiosCap, Len(df))
         IN  IF SliderMunicipiosMin <= SliderMunicipiosValue
                /\ SliderMunicipiosValue <= max_municipios
             THEN "graficos"
             ELSE "excecao_slider"
    ELSE "sem_dados"

\* the prize section of the page, run on the aggregate the call returned
SecaoPremios ==
    /\ pc \in {"agregado", "reagregado"}
    /\ secao_premios' = SecaoPremiosDe(df_analise_premios)
    /\ pc' = "apresentado"
    /\ UNCHANGED <<caminho, data_bruta, df_premios_raw, df_analise_premios,
                   df_analise_dezenas, total_repeticoes, mapa_sorteios,
                   csv_premios, csv_dezenas, jogo_a, jogo_b, chave_a, chave_b,
                   pedidos, analise_geral, execucao, sugeridas, pagina>>

NextAggregator == ProcessPremiosDataframe \/ SecaoPremios

SpecAggregator == InitAggregator /\ [][NextAggregator]_vars

----------------------------------------------------------------------------
(* analisar_sorteios_gerais *)

\* text.split('/')
RECURSIVE SplitBarra(_, _)
SplitBarra(texto, parte) ==
    IF texto = <<>> THEN <<parte>>
    ELSE IF Head(texto) = "/" THEN <<parte>> \o SplitBarra(Tail(texto), <<>>)
    ELSE SplitBarra(Tail(texto), Append(parte, Head(texto)))

SoDigitos(texto) ==
    texto # <<>> /\ \A i \in 1..Len(texto) : IsIn(texto[i], DigitChars)

Bissexto(ano) == ano % 4 = 0 /\ (ano % 100 # 0 \/ ano % 400 = 0)

DiasDoMes(mes, ano) ==
    IF mes = 2 THEN (IF Bissexto(ano) THEN 29 ELSE 28)
    ELSE IF mes \in {4, 6, 9, 11} THEN 30
    ELSE 31

\* the missing date (pd.NaT)
NaT == [dia |-> 0, mes |-> 0, ano |-> 0]

\* pd.to_datetime(text, format='%d/%m/%Y', errors='coerce') of one cell: %d
\* and %m take one or two digits, %Y takes four, and a text that is no date
\* of the calendar gives NaT
ParseData(texto) ==
    LET partes == SplitBarra(texto, <<>>)
    IN  IF /\ Len(partes) = 3
           /\ \A i \in 1..3 : SoDigitos(partes[i])
           /\ Len(partes[1]) <= 2 /\ Len(partes[2]) <= 2 /\ Len(partes[3]) = 4
        THEN LET dia == IntOfStr(partes[1])
                 mes == IntOfStr(partes[2])
                 ano == IntOfStr(partes[3])
             IN  IF mes \in 1..12 /\ dia \in 1..DiasDoMes(mes, ano)
                 THEN [dia |-> dia, mes |-> mes, ano |-> ano]
                 ELSE NaT
        ELSE NaT

\* the cell of column 'data' of a record: NaT when the record has no date
CelulaData(sorteio) ==
    IF sorteio.data.present THEN ParseData(sorteio.data.s) ELSE NaT

DataMenorOuIgual(a, b) ==
    \/ a.ano < b.ano
    \/ a.ano = b.ano /\ a.mes < b.mes
    \/ a.ano = b.ano /\ a.mes = b.mes /\ a.dia <= b.dia

\* Series.min() and Series.max(): over the cells that are not NaT, NaT if none
MinData(datas) ==
    LET validas == datas \ {NaT}
    IN  IF validas = {} THEN NaT
        ELSE CHOOSE d \in validas : \A o \in validas : DataMenorOuIgual(d, o)

MaxData(datas) ==
    LET validas == datas \ {NaT}
    IN  IF validas = {} THEN NaT
        ELSE CHOOSE d \in validas : \A o \in validas : DataMenorOuIgual(o, d)

\* d.strftime('%d/%m/%Y') if not d is pd.NaT else 'N/A'
FormatarData(d) ==
    IF d = NaT THEN NA
    ELSE Zfill(StrOfInt(d.dia), 2) \o <<"/">> \o Zfill(StrOfInt(d.mes), 2)
         \o <<"/">> \o Zfill(StrOfInt(d.ano), 4)

Analise(retorno, total, primeiro, ultimo) ==
    [retorno |-> retorno, total_sorteios |-> total,
     primeiro_sorteio |-> primeiro, ultimo_sorteio |-> ultimo]

\* lines 217-237. pd.json_normalize gives the table a column 'data' when at
\* least one record has the key, and df_bruto['data'] raises KeyError
\* without the column.
analisar_sorteios_gerais(dados) ==
    IF dados = <<>> THEN Analise("vazio", 0, <<>>, <<>>)
    ELSE IF \A i \in 1..Len(dados) : ~dados[i].data.present
    THEN Analise("KeyError", 0, <<>>, <<>>)
    ELSE LET datas == {CelulaData(dados[i]) : i \in 1..Len(dados)}
         IN  Analise("dict", Len(dados),
                     FormatarData(MinData(datas)), FormatarData(MaxData(datas)))

\* the 'data' fields a record may carry: none, three dates, a date in
\* another format, a day that is not of the calendar
DatasCruas ==
    {SemTexto,
     Texto(<<"1", "5", "/", "0", "3", "/", "2", "0", "2", "0">>),
     Texto(<<"0", "2", "/", "0", "1", "/", "2", "0", "2", "1">>),
     Texto(<<"1", "/", "2", "/", "2", "0", "2", "0">>),
     Texto(<<"2", "0", "2", "1", "-", "0", "1", "-", "0", "2">>),
     Texto(<<"3", "1", "/", "0", "2", "/", "2", "0", "2", "0">>)}

ListasComData ==
    UNION {{[i \in 1..n |-> [concurso |-> i, data |-> t[i]]] :
                t \in [1..n -> DatasCruas]} : n \in 0..MaxDraws}

InitGerais ==
    /\ pc = "gerais"
    /\ InitOutras
    /\ data_bruta \in ListasComData
    /\ caminho = "none"
    /\ df_premios_raw = <<>>
    /\ df_analise_premios = <<>>
    /\ df_analise_dezenas = <<>>
    /\ total_repeticoes = 0
    /\ mapa_sorteios = <<>>
    /\ csv_premios = SemArquivo
    /\ csv_dezenas = SemArquivo
    /\ jogo_a = <<>>
    /\ jogo_b = <<>>
    /\ chave_a = <<>>
    /\ chave_b = <<>>

\* line 373: analise_geral = analisar_sorteios_gerais(data_bruta)
AnalisarSorteiosGerais ==
    /\ pc = "gerais"
    /\ analise_geral' = analisar_sorteios_gerais(data_bruta)
    /\ pc' = "gerais_feito"
    /\ UNCHANGED <<caminho, data_bruta, df_premios_raw, df_analise_premios,
                   df_analise_dezenas, total_repeticoes, mapa_sorteios,
                   csv_premios, csv_dezenas, jogo_a, jogo_b, chave_a, chave_b,
                   secao_premios, pedidos, execucao, sugeridas, pagina>>

NextGerais == AnalisarSorteiosGerais

SpecGerais == InitGerais /\ [][NextGerais]_vars

----------------------------------------------------------------------------
(* sugerir_jogos *)

\* lines 266 and 283-284: the rows a pool of the strata takes
TamanhoDoPool == 10

\* lines 268 and 272-288: the numbers of a game
TamanhoDoJogo == 6

\* lines 301-302: the numbers a mixed game takes of each pool
MetadeDoJogo == 3

\* the rows of a set with the largest count
Maiores(linhas) == {r \in linhas : \A q \in linhas : q.ocorrencias <= r.ocorrencias}

\* line 263: sort_values(by='ocorrencias', ascending=False); the default sort
\* is not stable, so rows of equal count may come out in any order
RECURSIVE OrdensDesc(_)
OrdensDesc(linhas) ==
    IF linhas = {} THEN {<<>>}
    ELSE UNION {{<<r>> \o resto : resto \in OrdensDesc(linhas \ {r})} : r \in Maiores(linhas)}

\* df['dezena'].tolist(): the column as the values normalize_game is given
ColunaDezena(df) == [i \in 1..Len(df) |-> PyStr(df[i].dezena)]

\* df_sorted['dezena'].head(10).tolist(), with the tail in place of the head
top_10_as_tail(df) ==
    ColunaDezena(SubSeq(df, Len(df) - Min(TamanhoDoPool, Len(df)) + 1, Len(df)))

\* line 283: df_sorted['dezena'].head(10).tolist()
top_10(df) == ColunaDezena(SubSeq(df, 1, Min(TamanhoDoPool, Len(df))))

\* line 284: df_sorted['dezena'].tail(10).tolist()
bottom_10(df) ==
    ColunaDezena(SubSeq(df, Len(df) - Min(TamanhoDoPool, Len(df)) + 1, Len(df)))

\* random.sample(pool, k): k positions of the pool, any k; the order of the
\* sample is left out, every use hands it to the sort of normalize_game
Amostras(pool, k) ==
    {SelectSeq(pool, LAMBDA d : \E i \in posicoes : pool[i] = d) :
        posicoes \in {p \in SUBSET (1..Len(pool)) : Cardinality(p) = k}}

\* the list the loop fills after the list of a category is full
Seguinte(categoria) ==
    IF categoria = "mais" THEN "menos"
    ELSE IF categoria = "menos" THEN "misto" ELSE "sugerido"

\* the pool lines 272-274 and 288, 294 sample the six numbers of
PoolDe(categoria, df) ==
    IF Len(df) < TamanhoDoPool THEN ColunaDezena(df)
    ELSE IF categoria = "mais" THEN top_10(df) ELSE bottom_10(df)

\* the place a stable sort by descending count gives row i of the table
PosicaoEstavel(df, i) ==
    1 + Cardinality({j \in 1..Len(df) :
                        \/ df[j].ocorrencias > df[i].ocorrencias
                        \/ df[j].ocorrencias = df[i].ocorrencias /\ j < i})

\* line 263 as a stable sort: rows of equal count keep the order they had
OrdemEstavel(df) ==
    [p \in 1..Len(df) |-> df[CHOOSE i \in 1..Len(df) : PosicaoEstavel(df, i) = p]]

Invertida(df) == [i \in 1..Len(df) |-> df[Len(df) + 1 - i]]

\* line 263 on a table with many rows of equal count: of the orders the sort
\* may give them, the order of the table and the reverse of it
OrdensDeEmpate(df) == {OrdemEstavel(df), OrdemEstavel(Invertida(df))}

\* lines 260-284: the empty table, the sort (one of `ordens`), the short table
SugerirCom(ordens) ==
    /\ pc = "sugerir"
    /\ IF df_analise_dezenas = <<>>
       THEN /\ sugestoes' = "vazio"
            /\ pc' = "sugerido"
            /\ UNCHANGED df_sorted
       ELSE \E ordem \in ordens :
                /\ df_sorted' = ordem
                /\ IF Len(ordem) < TamanhoDoPool /\ Len(ordem) < TamanhoDoJogo
                   THEN sugestoes' = "vazio" /\ pc' = "sugerido"
                   ELSE sugestoes' = "none" /\ pc' = "mais"
    /\ UNCHANGED <<caminho, data_bruta, df_premios_raw, df_analise_premios,
                   df_analise_dezenas, total_repeticoes, mapa_sorteios,
                   csv_premios, csv_dezenas, jogo_a, jogo_b, chave_a, chave_b,
                   secao_premios, pedidos, analise_geral, execucao, pagina,
                   num_jogos, jogos_len, jogo_norm, parte_top>>

\* the call on a table of few rows of equal count: every order of the sort
SugerirJogos ==
    SugerirCom(OrdensDesc({df_analise_dezenas[i] : i \in 1..Len(df_analise_dezenas)}))

\* lines 272-274, 288-289 and 294-295: one pass of a loop that samples six
\* numbers of one pool and appends their key
AmostrarJogo ==
    /\ pc \in {"mais", "menos"} \/ (pc = "misto" /\ Len(df_sorted) < TamanhoDoPool)
    /\ \E amostra \in Amostras(PoolDe(pc, df_sorted), TamanhoDoJogo) :
           jogo_norm' = normalize_game(amostra)
    /\ jogos_len' = [jogos_len EXCEPT ![pc] = @ + 1]
    /\ pc' = IF jogos_len'[pc] = num_jogos THEN Seguinte(pc) ELSE pc
    /\ sugestoes' = IF pc' = "sugerido" THEN "dict" ELSE sugestoes
    /\ UNCHANGED <<caminho, data_bruta, df_premios_raw, df_analise_premios,
                   df_analise_dezenas, total_repeticoes, mapa_sorteios,
                   csv_premios, csv_dezenas, jogo_a, jogo_b, chave_a, chave_b,
                   secao_premios, pedidos, analise_geral, execucao, pagina,
                   num_jogos, df_sorted, parte_top>>

\* line 301: parte_top = random.sample(top_10, 3); the key the pass before
\* appended is no longer the last thing done
AmostrarParteTop ==
    /\ pc = "misto" /\ Len(df_sorted) >= TamanhoDoPool
    /\ parte_top = <<>>
    /\ parte_top' \in Amostras(top_10(df_sorted), MetadeDoJogo)
    /\ jogo_norm' = <<>>
    /\ UNCHANGED <<pc, caminho, data_bruta, df_premios_raw, df_analise_premios,
                   df_analise_dezenas, total_repeticoes, mapa_sorteios,
                   csv_premios, csv_dezenas, jogo_a, jogo_b, chave_a, chave_b,
                   secao_premios, pedidos, analise_geral, execucao, pagina,
                   num_jogos, df_sorted, jogos_len, sugestoes>>

\* lines 302-305: parte_bottom = random.sample(bottom_10, 3), the two parts
\* joined, shuffled and appended as a key (the shuffle is undone by the sort
\* of normalize_game)
AmostrarParteBottom ==
    /\ pc = "misto" /\ Len(df_sorted) >= TamanhoDoPool
    /\ parte_top # <<>>
    /\ \E parte_bottom \in Amostras(bottom_10(df_sorted), MetadeDoJogo) :
           jogo_norm' = normalize_game(parte_top \o parte_bottom)
    /\ parte_top' = <<>>
    /\ jogos_len' = [jogos_len EXCEPT !.misto = @ + 1]
    /\ pc' = IF jogos_len'.misto = num_jogos THEN "sugerido" ELSE "misto"
    /\ sugestoes' = IF pc' = "sugerido" THEN "dict" ELSE sugestoes
    /\ UNCHANGED <<caminho, data_bruta, df_premios_raw, df_analise_premios,
                   df_analise_dezenas, total_repeticoes, mapa_sorteios,
                   csv_premios, csv_dezenas, jogo_a, jogo_b, chave_a, chave_b,
                   secao_premios, pedidos, analise_geral, execucao, pagina,
                   num_jogos, df_sorted>>

\* a row of the frequency table: number k drawn c times
LinhaDezena(k, c) ==
    [dezena |-> Zfill(StrOfInt(k), 2), ocorrencias |-> c, dezena_int |-> k]

\* the table of the numbers 1..n, number k drawn k times, but 11 drawn as
\* often as 10
TabelaDeDezenas(n) == [k \in 1..n |-> LinhaDezena(k, IF k = 11 THEN 10 ELSE k)]

\* no row; too few rows for a game; too few rows for the strata; the strata
\* of twelve rows, where the rows of equal count sit at the edge of the bottom 10
TamanhosDeTabela == {0, 5, 7, 12}

InitSugerir ==
    /\ pc = "sugerir"
    /\ secao_premios = "none"
    /\ pedidos = <<>>
    /\ analise_geral = [retorno |-> "none", total_sorteios |-> 0,
                        primeiro_sorteio |-> <<>>, ultimo_sorteio |-> <<>>]
    /\ execucao = 1
    /\ num_jogos \in 1..MaxSugestoes
    /\ df_sorted = <<>>
    /\ jogos_len = [mais |-> 0, menos |-> 0, misto |-> 0]
    /\ jogo_norm = <<>>
    /\ parte_top = <<>>
    /\ sugestoes = "none"
    /\ InitPagina
    /\ df_analise_dezenas \in {TabelaDeDezenas(n) : n \in TamanhosDeTabela}
    /\ caminho = "none"
    /\ data_bruta = <<>>
    /\ df_premios_raw = <<>>
    /\ df_analise_premios = <<>>
    /\ total_repeticoes = 0
    /\ mapa_sorteios = <<>>
    /\ csv_premios = SemArquivo
    /\ csv_dezenas = SemArquivo
    /\ jogo_a = <<>>
    /\ jogo_b = <<>>
    /\ chave_a = <<>>
    /\ chave_b = <<>>

NextSugerir ==
    \/ SugerirJogos
    \/ AmostrarJogo
    \/ AmostrarParteTop
    \/ AmostrarParteBottom

SpecSugerir == InitSugerir /\ [][NextSugerir]_vars

----------------------------------------------------------------------------
(* sugerir_jogos on the table of the download pass *)

\* line 438: the value of the slider when the page is first loaded
SliderSugestoesValue == 1

\* no draw; a draw of five numbers; a draw of six numbers
ListasCurtas ==
    {<<>>,
     ComConcursos(<<[dezenas |-> Dz5, localGanhadores |-> Ausente]>>),
     ComConcursos(<<[dezenas |-> DzA, localGanhadores |-> Ausente]>>)}

\* the page after load_and_process_data took the download pass (line 365)
InitSugerirFresh ==
    /\ pc = "sugerir"
    /\ secao_premios = "none"
    /\ pedidos = <<>>
    /\ analise_geral = [retorno |-> "none", total_sorteios |-> 0,
                        primeiro_sorteio |-> <<>>, ultimo_sorteio |-> <<>>]
    /\ execucao = 1
    /\ num_jogos = SliderSugestoesValue
    /\ df_sorted = <<>>
    /\ jogos_len = [mais |-> 0, menos |-> 0, misto |-> 0]
    /\ jogo_norm = <<>>
    /\ parte_top = <<>>
    /\ sugestoes = "none"
    /\ InitPagina
    /\ data_bruta \in ListasCurtas
    /\ df_analise_dezenas = ProcessarFresh(data_bruta).dezenas
    /\ caminho = "fresh"
    /\ df_premios_raw = <<>>
    /\ df_analise_premios = <<>>
    /\ total_repeticoes = 0
    /\ mapa_sorteios = <<>>
    /\ csv_premios = SemArquivo
    /\ csv_dezenas = SemArquivo
    /\ jogo_a = <<>>
    /\ jogo_b = <<>>
    /\ chave_a = <<>>
    /\ chave_b = <<>>

\* lines 445-446: the call on the table of 60 rows
SugerirJogosFresh == SugerirCom(OrdensDeEmpate(df_analise_dezenas))

NextSugerirFresh ==
    \/ SugerirJogosFresh
    \/ AmostrarJogo
    \/ AmostrarParteTop
    \/ AmostrarParteBottom

SpecSugerirFresh == InitSugerirFresh /\ [][NextSugerirFresh]_vars

----------------------------------------------------------------------------
(* The page script: the suggestions kept in st.session_state over the reruns *)

\* st.session_state['jogos_sugeridos'], ['last_num_sugestoes'] after an assignment
Guardado(n, amostra) == [present |-> TRUE, n |-> n, amostra |-> amostra]

\* line 449: st.session_state.get('last_num_sugestoes', 1)
UltimoNum(ss) == IF ss.last_num_sugestoes.present THEN ss.last_num_sugestoes.n ELSE 1

\* what sugerir_jogos(df, n) returns, as the length of each of its three
\* lists and the outcome of the random source: {} for a table of fewer than
\* 6 rows, n keys per category otherwise
SugerirJogosResultados(df, n) ==
    IF Len(df) < TamanhoDoJogo THEN {Guardado(0, 0)}
    ELSE {Guardado(n, a) : a \in 1..MaxAmostras}

\* lines 445-451 without the test of the slider value
SessaoAposScript_sem_slider(ss, num, clicado, r1, r2) ==
    [jogos_sugeridos |-> IF ~ss.jogos_sugeridos.present \/ clicado THEN r1
                         ELSE ss.jogos_sugeridos,
     last_num_sugestoes |-> ss.last_num_sugestoes]

\* lines 445-451 without the assignment of line 451
SessaoAposScript_sem_last(ss, num, clicado, r1, r2) ==
    [jogos_sugeridos |->
        IF UltimoNum(ss) # num THEN r2
        ELSE IF ~ss.jogos_sugeridos.present \/ clicado THEN r1
        ELSE ss.jogos_sugeridos,
     last_num_sugestoes |-> ss.last_num_sugestoes]

\* lines 445-451: st.session_state after the two tests, r1 and r2 being what
\* the call of line 446 and the call of line 450 return
SessaoAposScript(ss, num, clicado, r1, r2) ==
    [jogos_sugeridos |->
        IF UltimoNum(ss) # num THEN r2
        ELSE IF ~ss.jogos_sugeridos.present \/ clicado THEN r1
        ELSE ss.jogos_sugeridos,
     last_num_sugestoes |->
        IF UltimoNum(ss) # num THEN Guardado(num, 0) ELSE ss.last_num_sugestoes]

\* a new session: the first run of the page, the slider at its default
InitSessao ==
    /\ pc = "rerun"
    /\ secao_premios = "none"
    /\ pedidos = <<>>
    /\ analise_geral = [retorno |-> "none", total_sorteios |-> 0,
                        primeiro_sorteio |-> <<>>, ultimo_sorteio |-> <<>>]
    /\ execucao = 1
    /\ num_jogos = 0
    /\ df_sorted = <<>>
    /\ jogos_len = [mais |-> 0, menos |-> 0, misto |-> 0]
    /\ jogo_norm = <<>>
    /\ parte_top = <<>>
    /\ sugestoes = "none"
    /\ resultado = [sim |-> FALSE, concursos |-> <<>>]
    /\ consultas = <<>>
    /\ session_state = [jogos_sugeridos |-> NaoGuardado, last_num_sugestoes |-> NaoGuardado]
    /\ num_sugestoes = SliderSugestoesValue
    /\ botao = FALSE
    /\ exibido = [present |-> FALSE, num_sugestoes |-> 0, antes |-> 0, jogos |-> NaoGuardado]
    /\ pizza = [retorno |-> "none", estado |-> <<>>, top_n |-> 0, df_pizza |-> <<>>]
    /\ df_analise_dezenas \in {TabelaDeDezenas(7), TabelaDeDezenas(12)}
    /\ caminho = "cache"
    /\ data_bruta = <<>>
    /\ df_premios_raw = <<>>
    /\ df_analise_premios = <<>>
    /\ total_repeticoes = 0
    /\ mapa_sorteios = <<>>
    /\ csv_premios = SemArquivo
    /\ csv_dezenas = SemArquivo
    /\ jogo_a = <<>>
    /\ jogo_b = <<>>
    /\ chave_a = <<>>
    /\ chave_b = <<>>

\* lines 401 and 434-470: one run of the script through the suggestion
\* section, up to the suggestions it shows
ExecutarPagina ==
    /\ pc = "rerun"
    /\ df_analise_dezenas # <<>>
    /\ \E r1, r2 \in SugerirJogosResultados(df_analise_dezenas, num_sugestoes) :
           session_state' = SessaoAposScript(session_state, num_sugestoes, botao, r1, r2)
    /\ exibido' = [present |-> TRUE, num_sugestoes |-> num_sugestoes,
                   antes |-> exibido.num_sugestoes,
                   jogos |-> session_state'.jogos_sugeridos]
    /\ pc' = "exibido"
    /\ UNCHANGED <<caminho, data_bruta, df_premios_raw, df_analise_premios,
                   df_analise_dezenas, total_repeticoes, mapa_sorteios,
                   csv_premios, csv_dezenas, jogo_a, jogo_b, chave_a, chave_b,
                   secao_premios, pedidos, analise_geral, execucao, sugeridas,
                   resultado, consultas, num_sugestoes, botao, pizza>>

\* the visitor moves the suggestion slider (lines 434-441), clicks the button
\* (line 445) or uses another widget of the page; each makes the script run again
Evento ==
    /\ pc = "exibido"
    /\ \/ /\ num_sugestoes' \in (1..MaxSlider) \ {num_sugestoes}
          /\ botao' = FALSE
       \/ /\ botao' \in BOOLEAN
          /\ UNCHANGED num_sugestoes
    /\ pc' = "rerun"
    /\ UNCHANGED <<caminho, data_bruta, df_premios_raw, df_analise_premios,
                   df_analise_dezenas, total_repeticoes, mapa_sorteios,
                   csv_premios, csv_dezenas, jogo_a, jogo_b, chave_a, chave_b,
                   secao_premios, pedidos, analise_geral, execucao, sugeridas,
                   resultado, consultas, session_state, exibido, pizza>>

NextSessao == ExecutarPagina \/ Evento

SpecSessao == InitSessao /\ [][NextSessao]_vars

----------------------------------------------------------------------------
(* plot_municipios_por_estado *)

\* line 567: the cap of the pie slider's max_value
SliderPieCap == 15

\* the rows of a set with the largest vezes_premiado
MaisPremiadas(linhas) ==
    {r \in linhas : \A q \in linhas : q.vezes_premiado <= r.vezes_premiado}

\* line 178: sort_values(by='vezes_premiado', ascending=False); rows of equal
\* count may come out in any order
RECURSIVE OrdensPorVezes(_)
OrdensPorVezes(linhas) ==
    IF linhas = {} THEN {<<>>}
    ELSE UNION {{<<r>> \o resto : resto \in OrdensPorVezes(linhas \ {r})} :
                    r \in MaisPremiadas(linhas)}

\* Series.sum() of the column vezes_premiado
RECURSIVE SomaVezes(_)
SomaVezes(df) ==
    IF df = <<>> THEN 0 ELSE Head(df).vezes_premiado + SomaVezes(Tail(df))

\* lines 187 and 190: the columns uf, total_premios_estado, uf_municipio dropped
ColunasDaPizza(df) ==
    [i \in 1..Len(df) |->
        [municipio |-> df[i].municipio, vezes_premiado |-> df[i].vezes_premiado]]

\* line 183: f'OUTROS ({n} Cidades)'
NomeOutros(n) ==
    <<"O", "U", "T", "R", "O", "S", " ", "(">> \o StrOfInt(n)
        \o <<" ", "C", "i", "d", "a", "d", "e", "s", ")">>

\* line 182: df_estado_completo[...].iloc[top_n_ajustado:], the rows after
\* the first n of the table as it was before the sort
OutrasCidades(df_estado_completo, n) ==
    SubSeq(df_estado_completo, n + 1, Len(df_estado_completo))

\* lines 170-198: the table handed to px.pie, for each order the sort may
\* give; "None" when no figure is made
plot_municipios_por_estado(df, estado, top_n) ==
    LET df_estado_completo == SelectSeq(df, LAMBDA r : r.uf = estado)
        n_cidades_estado == Len(df_estado_completo)
        top_n_ajustado == Min(top_n, n_cidades_estado)
    IN  IF df = <<>> \/ df_estado_completo = <<>>
        THEN {[retorno |-> "None", estado |-> estado, top_n |-> top_n, df_pizza |-> <<>>]}
        ELSE {LET df_filtrado == SubSeq(ordenado, 1, top_n_ajustado)
                  outras_cidades_count ==
                      SomaVezes(OutrasCidades(df_estado_completo, top_n_ajustado))
              IN  [retorno |-> "fig", estado |-> estado, top_n |-> top_n,
                   df_pizza |->
                      IF n_cidades_estado > top_n_ajustado /\ n_cidades_estado > 1
                      THEN ColunasDaPizza(df_filtrado)
                           \o <<[municipio |-> NomeOutros(n_cidades_estado - top_n_ajustado),
                                 vezes_premiado |-> outras_cidades_count]>>
                      ELSE ColunasDaPizza(df_filtrado)] :
                 ordenado \in OrdensPorVezes({df_estado_completo[i] :
                                                 i \in 1..Len(df_estado_completo)})}

\* winner rows of three municipalities of SP and one of RJ
LinhasDePizza ==
    {[concurso |-> 1, municipio |-> m, uf |-> <<"S", "P">>] :
        m \in {<<"I", "T">>, <<"S", "A">>, <<"U", "B">>}}
    \cup {[concurso |-> 1, municipio |-> <<"R", "I">>, uf |-> <<"R", "J">>]}

TabelasDePizza == UNION {[1..n -> LinhasDePizza] : n \in 0..MaxLinhasPizza}

\* the page with the aggregate of a winner table (line 365)
InitPizza ==
    /\ pc = "agregado"
    /\ InitOutras
    /\ df_premios_raw \in TabelasDePizza
    /\ df_analise_premios = process_premios_dataframe(df_premios_raw)
    /\ caminho = "fresh"
    /\ data_bruta = <<>>
    /\ df_analise_dezenas = <<>>
    /\ total_repeticoes = 0
    /\ mapa_sorteios = <<>>
    /\ csv_premios = SemArquivo
    /\ csv_dezenas = SemArquivo
    /\ jogo_a = <<>>
    /\ jogo_b = <<>>
    /\ chave_a = <<>>
    /\ chave_b = <<>>

\* lines 563-593: a state of the aggregate is selected, the slider gives
\* top_n_pie within 1..min(15, n) (1 for a state of one municipality), and
\* the pie of the state is made
PlotMunicipiosPorEstado ==
    /\ pc = "agregado"
    /\ \E i \in 1..Len(df_analise_premios) :
           LET estado_selecionado == df_analise_premios[i].uf
               n_cidades_estado ==
                   Cardinality({j \in 1..Len(df_analise_premios) :
                                   df_analise_premios[j].uf = estado_selecionado})
           IN  \E top_n_pie \in 1..Min(SliderPieCap, n_cidades_estado) :
                   pizza' \in plot_municipios_por_estado(df_analise_premios,
                                                        estado_selecionado, top_n_pie)
    /\ pc' = "pizza"
    /\ UNCHANGED <<caminho, data_bruta, df_premios_raw, df_analise_premios,
                   df_analise_dezenas, total_repeticoes, mapa_sorteios,
                   csv_premios, csv_dezenas, jogo_a, jogo_b, chave_a, chave_b,
                   secao_premios, pedidos, analise_geral, execucao, sugeridas,
                   resultado, consultas, session_state, num_sugestoes, botao, exibido>>

NextPizza == PlotMunicipiosPorEstado

SpecPizza == InitPizza /\ [][NextPizza]_vars

----------------------------------------------------------------------------
(* Vocabulary of the properties, independent of the operators above *)

TwoDigits(k) == <<DigitChars[(k \div 10) + 1], DigitChars[(k % 10) + 1]>>

\* the numeric value of a drawn number given as an int or as a decimal string
NumVal(d) == IF d.kind = "int" THEN d.n ELSE IntOfStr(d.s)

NumSet(sorteio) == {NumVal(sorteio.dezenas.list[i]) : i \in 1..Len(sorteio.dezenas.list)}

\* how many entries of the draw's list have the value k
NumCount(sorteio, k) ==
    Cardinality({i \in 1..Len(sorteio.dezenas.list) :
                    NumVal(sorteio.dezenas.list[i]) = k})

\* the two draws have the same numbers, each as often
SameNumbers(s1, s2) ==
    \A k \in NumSet(s1) \cup NumSet(s2) : NumCount(s1, k) = NumCount(s2, k)

\* the draw carries a list of exactly six entries
TemSeis(sorteio) == sorteio.dezenas.present /\ Len(sorteio.dezenas.list) = 6

\* the draw carries exactly six valid numbers
SeisValidas(sorteio) ==
    /\ TemSeis(sorteio)
    /\ \A i \in 1..6 : NumVal(sorteio.dezenas.list[i]) \in 1..NumDezenas

\* the elements of a set of numbers in ascending order
RECURSIVE Ascending(_)
Ascending(nums) ==
    IF nums = {} THEN <<>>
    ELSE LET m == CHOOSE x \in nums : \A y \in nums : x <= y
         IN  <<m>> \o Ascending(nums \ {m})

\* the canonical key of a combination: ascending, two digits each, '-' between
CanonicalKey(comb) ==
    LET asc == Ascending(comb)
    IN  StrJoin(<<"-">>, [i \in 1..Len(asc) |-> TwoDigits(asc[i])])

RECURSIVE SomaOcorrencias(_)
SomaOcorrencias(tabela) ==
    IF tabela = <<>> THEN 0 ELSE Head(tabela).ocorrencias + SomaOcorrencias(Tail(tabela))

Concursos(sorteios) == [i \in 1..Len(sorteios) |-> sorteios[i].concurso]

CombA == {4, 8, 15, 16, 23, 42}

CombB == {1, 2, 3, 4, 5, 6}

\* the combinations looked up: two that are drawn, two that never are
Combos == {CombA, CombB, {7, 8, 9, 10, 11, 12}, {1, 2, 3, 4, 5, 7}}

KeyA == <<"0", "4", "-", "0", "8", "-", "1", "5", "-", "1", "6", "-", "2", "3", "-", "4", "2">>

\* the state codes the aggregate must not show
InvalidStateCodes == {<<"-", "-">>, <<"X", "X">>, <<"N", "/", "A">>, <<>>}

IsLetter(c) == IsIn(c, UpperChars) \/ IsIn(c, LowerChars)

SameLetter(c, d) ==
    \/ c = d
    \/ IsLetter(c) /\ IsLetter(d) /\ (Ord(c) - Ord(d)) \in {32, -32}

\* s and t differ only in letter case or leading/trailing whitespace
SameModuloCase(s, t) ==
    LET a == StrStrip(s)
        b == StrStrip(t)
    IN  Len(a) = Len(b) /\ \A i \in 1..Len(a) : SameLetter(a[i], b[i])

\* the positions <<draw, entry>> of the raw winner entries
EntradasCruas(dados) ==
    UNION {{<<i, j>> : j \in 1..Len(dados[i].localGanhadores.list)} :
            i \in 1..Len(dados)}

Entrada(dados, x) == dados[x[1]].localGanhadores.list[x[2]]

\* a raw entry with a municipality and a state that are no placeholders
EntradaValida(g) ==
    /\ g.municipio.present /\ g.uf.present
    /\ StrStrip(g.municipio.s) # <<>>
    /\ ~SameModuloCase(g.municipio.s, <<"N", "/", "A">>)
    /\ \A bad \in InvalidStateCodes : ~SameModuloCase(g.uf.s, bad)
    /\ Quantidade(g) >= 1

\* the number of prizes a raw entry declares: its 'quantidade', 1 when absent
PrizesOf(g) == IF g.quantidade.present THEN g.quantidade.n ELSE 1

\* the valid raw entries that belong to row i of the aggregate
EntriesOfBucket(dados, i) ==
    {x \in EntradasCruas(dados) :
        /\ EntradaValida(Entrada(dados, x))
        /\ SameModuloCase(df_analise_premios[i].uf, Entrada(dados, x).uf.s)
        /\ SameModuloCase(df_analise_premios[i].municipio,
                          Entrada(dados, x).municipio.s)}

\* a winner entry as the API documents it: an object whose municipality and
\* state are strings (or absent) and whose quantity is an integer (or absent)
WellFormedEntry(g) ==
    /\ "nao_objeto" \notin DOMAIN g
    /\ "nao_texto" \notin DOMAIN g.municipio
    /\ "nao_texto" \notin DOMAIN g.uf
    /\ "nao_inteiro" \notin DOMAIN g.quantidade

\* a raw record that is an object and has only well-formed winner entries
WellFormedRecord(sorteio) ==
    /\ "nao_objeto" \notin DOMAIN sorteio
    /\ \A j \in 1..Len(sorteio.localGanhadores.list) :
            WellFormedEntry(sorteio.localGanhadores.list[j])

Date150320 == <<"1", "5", "/", "0", "3", "/", "2", "0", "2", "0">>

Date020121 == <<"0", "2", "/", "0", "1", "/", "2", "0", "2", "1">>

Date010220 == <<"0", "1", "/", "0", "2", "/", "2", "0", "2", "0">>

\* the day/month/year dates of the calendar the records may carry: each as
\* <<year, month, day>> and as its text DD/MM/YYYY
KnownDates ==
    (Date150320 :> [ymd |-> <<2020, 3, 15>>, text |-> Date150320])
    @@ (Date020121 :> [ymd |-> <<2021, 1, 2>>, text |-> Date020121])
    @@ (<<"1", "/", "2", "/", "2", "0", "2", "0">>
            :> [ymd |-> <<2020, 2, 1>>, text |-> Date010220])

\* the records whose date is a day/month/year date of the calendar
Dated(dados) ==
    {i \in 1..Len(dados) : dados[i].data.present /\ dados[i].data.s \in DOMAIN KnownDates}

Earlier(a, b) ==
    \/ a[1] < b[1]
    \/ a[1] = b[1] /\ a[2] < b[2]
    \/ a[1] = b[1] /\ a[2] = b[2] /\ a[3] <= b[3]

\* the rows of the aggregate a raw entry falls into
Buckets(g) ==
    {i \in 1..Len(df_analise_premios) :
        /\ SameModuloCase(df_analise_premios[i].uf, g.uf.s)
        /\ SameModuloCase(df_analise_premios[i].municipio, g.municipio.s)}

\* the numbers a canonical key "NN-NN-...-NN" names, in the key's order
KeyNumbers(key) ==
    [i \in 1..((Len(key) + 1) \div 3) |-> IntOfStr(SubSeq(key, 3 * i - 2, 3 * i - 1))]

\* the sorted table holds the rows of the frequency table, and no row after
\* position k has a larger count than a row up to position k
SplitsByCount(k) ==
    /\ Len(df_sorted) = Len(df_analise_dezenas)
    /\ {df_sorted[i] : i \in 1..Len(df_sorted)}
           = {df_analise_dezenas[i] : i \in 1..Len(df_analise_dezenas)}
    /\ \A i \in 1..k : \A j \in (k + 1)..Len(df_sorted) :
           df_sorted[i].ocorrencias >= df_sorted[j].ocorrencias

\* ten numbers of highest count, and ten of lowest count
HighStratum == {df_sorted[i].dezena_int : i \in 1..10}

LowStratum == {df_sorted[i].dezena_int : i \in (Len(df_sorted) - 9)..Len(df_sorted)}

\* the category of the combination that was produced last
LastIsHigh ==
    /\ jogo_norm # <<>>
    /\ (pc = "mais" /\ jogos_len.mais >= 1) \/ (pc = "menos" /\ jogos_len.menos = 0)

LastIsLow ==
    /\ jogo_norm # <<>>
    /\ (pc = "menos" /\ jogos_len.menos >= 1) \/ (pc = "misto" /\ jogos_len.misto = 0)

LastIsMixed == jogo_norm # <<>> /\ jogos_len.misto >= 1

\* three of the numbers are of the one set and the other three of the other
ThreeAndThree(nums, high, low) ==
    /\ Len(nums) = 6
    /\ \E part \in SUBSET (1..6) :
           /\ Cardinality(part) = 3
           /\ \A i \in 1..6 : IF i \in part THEN nums[i] \in high ELSE nums[i] \in low

\* the numbers that have a nonzero count in the frequency table
Represented ==
    {df_analise_dezenas[i].dezena_int :
        i \in {j \in 1..Len(df_analise_dezenas) : df_analise_dezenas[j].ocorrencias > 0}}

\* the winner entries a draw carries under 'rateio' -> 'ganhadores_cidade',
\* written as entries under 'localGanhadores'
EntriesOfRateio(sorteio) ==
    LET item == sorteio.rateio.list[1]
        antigos == item.ganhadores_cidade.list
    IN  [j \in 1..Len(antigos) |->
            [municipio |-> antigos[j].cidade, uf |-> antigos[j].uf,
             quantidade |-> [present |-> FALSE, n |-> 0]]]

\* the draw list with every winner list under 'localGanhadores'
UnderLocalGanhadores(dados) ==
    [i \in 1..Len(dados) |->
        IF dados[i].rateio.present
        THEN [concurso |-> dados[i].concurso, dezenas |-> dados[i].dezenas,
              localGanhadores |-> [present |-> TRUE, list |-> EntriesOfRateio(dados[i])],
              rateio |-> [present |-> FALSE, list |-> <<>>]]
        ELSE dados[i]]

\* the key is six two-digit fields joined by '-', the numbers they name are
\* in 1..60 and ascend strictly
WellFormedKey(key) ==
    /\ Len(key) = 17
    /\ \A p \in 1..17 : IF p % 3 = 0 THEN key[p] = "-" ELSE IsIn(key[p], DigitChars)
    /\ \A i \in 1..6 : KeyNumbers(key)[i] \in 1..60
    /\ \A i \in 1..5 : KeyNumbers(key)[i] < KeyNumbers(key)[i + 1]

\* the sum of the winner counts of the rows of a table
RECURSIVE TotalOfCounts(_)
TotalOfCounts(rows) ==
    IF rows = <<>> THEN 0
    ELSE rows[1].vezes_premiado + TotalOfCounts(SubSeq(rows, 2, Len(rows)))

\* the rows of the aggregate that belong to a state
RowsOfState(estado) == SelectSeq(df_analise_premios, LAMBDA r : r.uf = estado)

\* some N rows of the state, each with at least the count of every other row
\* of the state, are the rows the pie shows before its last one
ShowsTopN(estado, n) ==
    \E top \in SUBSET (1..Len(RowsOfState(estado))) :
        /\ Cardinality(top) = n
        /\ \A i \in top : \A j \in (1..Len(RowsOfState(estado))) \ top :
               RowsOfState(estado)[i].vezes_premiado >= RowsOfState(estado)[j].vezes_premiado
        /\ {pizza.df_pizza[k] : k \in 1..n}
               = {[municipio |-> RowsOfState(estado)[i].municipio,
                   vezes_premiado |-> RowsOfState(estado)[i].vezes_premiado] : i \in top}

\* a raw winner entry for which the download pass makes at least one row: a
\* non-empty municipality and state, neither of them 'N/A', a quantity of 1 or more
MakesWinnerRow(g) ==
    /\ g.municipio.present /\ g.municipio.s # <<>>
    /\ g.uf.present /\ g.uf.s # <<>>
    /\ ~SameModuloCase(g.municipio.s, <<"N", "/", "A">>)
    /\ ~SameModuloCase(g.uf.s, <<"N", "/", "A">>)
    /\ PrizesOf(g) >= 1

\* no winner entry of the draw list makes a row
NoWinnerRow(dados) ==
    \A x \in EntradasCruas(dados) : ~MakesWinnerRow(Entrada(dados, x))

----------------------------------------------------------------------------
(* Properties *)

\* C1: normalize_game is order-independent: a six-element list of numbers and
\* any permutation of it get the same key, whether the elements are ints,
\* zero-padded strings or unpadded strings.
C1_OrderIndependent == pc = "normalizado" => chave_a = chave_b

C1_Witness ==
    /\ pc = "normalizado"
    /\ jogo_a = Ints(<<5, 1, 30, 12, 45, 9>>)
    /\ jogo_b = Unpadded(<<9, 45, 12, 30, 1, 5>>)
    /\ chave_a = CanonicalKey({5, 1, 30, 12, 45, 9})

\* C2: after analisar_repeticao_jogos, the lookup of the canonical key of a
\* combination gives exactly the contest numbers of the draws whose six
\* numbers are that combination, in input order, and nothing for a
\* combination no draw has.
C2_LookupExact ==
    pc = "analisado" =>
        \A comb \in Combos :
            LET Drew(sorteio) == TemSeis(sorteio) /\ NumSet(sorteio) = comb
                ids == Concursos(SelectSeq(data_bruta, Drew))
            IN  verificar_sugestao_historico(CanonicalKey(comb), mapa_sorteios)
                    = [sim |-> ids # <<>>, concursos |-> ids]

C2_Witness ==
    /\ pc = "analisado"
    /\ Len(data_bruta) = 3
    /\ data_bruta[1].dezenas = DzA
    /\ data_bruta[2].dezenas = DzB
    /\ data_bruta[3].dezenas = DzARev
    /\ verificar_sugestao_historico(KeyA, mapa_sorteios).concursos = <<1, 3>>
    /\ total_repeticoes = 1

\* C3: total_repeticoes is the number of indexed draws minus the number of
\* distinct keys, and it is 0 exactly when no combination was drawn twice.
C3_TotalRepeats ==
    pc = "analisado" =>
        LET indexed == {i \in 1..Len(data_bruta) : TemSeis(data_bruta[i])}
            twice == \E i, j \in indexed :
                        i # j /\ SameNumbers(data_bruta[i], data_bruta[j])
        IN  /\ total_repeticoes = Cardinality(indexed) - Cardinality(DOMAIN mapa_sorteios)
            /\ (total_repeticoes = 0) <=> ~twice

C3_Witness ==
    /\ pc = "analisado"
    /\ total_repeticoes = 2
    /\ Cardinality(DOMAIN mapa_sorteios) = 1

\* C4: when every draw of the fresh pass carries exactly six valid numbers,
\* the counts of the frequency table add up to six times the number of draws.
C4_FrequencyConservation ==
    (caminho = "fresh" /\ \A i \in 1..Len(data_bruta) : SeisValidas(data_bruta[i]))
        => SomaOcorrencias(df_analise_dezenas) = 6 * Len(data_bruta)

C4_Witness ==
    /\ caminho = "fresh"
    /\ Len(data_bruta) = 3
    /\ \A i \in 1..3 : SeisValidas(data_bruta[i])
    /\ data_bruta[2].dezenas = DzAStr
    /\ SomaOcorrencias(df_analise_dezenas) = 18

\* C5: a draw with fewer than six valid numbers is left out of the frequency
\* table: the counts add up to six times the number of draws with exactly
\* six valid numbers.
C5_IncompleteExcluded ==
    caminho = "fresh" =>
        SomaOcorrencias(df_analise_dezenas)
            = 6 * Cardinality({i \in 1..Len(data_bruta) : SeisValidas(data_bruta[i])})

\* C6: a draw whose number list does not have exactly six entries is in no
\* list of the index and does not change total_repeticoes.
C6_IncompleteNotIndexed ==
    pc = "analisado" =>
        /\ \A i \in 1..Len(data_bruta) :
            ~TemSeis(data_bruta[i]) =>
                \A k \in DOMAIN mapa_sorteios :
                    data_bruta[i].concurso \notin Range(mapa_sorteios[k])
        /\ total_repeticoes
            = analisar_repeticao_jogos(SelectSeq(data_bruta, TemSeis)).total

C6_Witness ==
    /\ pc = "analisado"
    /\ Len(data_bruta) = 3
    /\ data_bruta[1].dezenas = Dz5
    /\ data_bruta[2].dezenas = Dz5
    /\ data_bruta[3].dezenas = DzA
    /\ DOMAIN mapa_sorteios = {KeyA}
    /\ total_repeticoes = 0

\* C7: the prize aggregate of the fresh pass depends only on the winner
\* entries: replacing the 'dezenas' field of any draw leaves it unchanged, so
\* a draw with incomplete or missing numbers still contributes its winners.
C7_PrizesIgnoreDezenas ==
    caminho = "fresh" =>
        \A i \in 1..Len(data_bruta) : \A d \in DezenasChoices :
            process_premios_dataframe(
                LoopSorteios([data_bruta EXCEPT ![i].dezenas = d],
                             <<>>, ContagemInicial).registros_premios)
                = df_analise_premios

C7_Witness ==
    /\ caminho = "fresh"
    /\ Len(data_bruta) = 1
    /\ data_bruta[1].dezenas = Dz5
    /\ data_bruta[1].localGanhadores = G1
    /\ Len(df_analise_premios) = 1
    /\ df_analise_premios[1].municipio = <<"U", "B">>
    /\ df_analise_premios[1].vezes_premiado = 1

\* C8: the frequency table of the fresh pass has exactly one row for each of
\* the numbers 01..60, for every draw list (row k is the row of number k); a
\* number never drawn has count 0.
C8_AllSixtyRows ==
    caminho = "fresh" =>
        LET drawn == UNION {NumSet(data_bruta[n]) : n \in 1..Len(data_bruta)}
        IN  /\ Len(df_analise_dezenas) = 60
            /\ \A k \in 1..Len(df_analise_dezenas) :
                /\ df_analise_dezenas[k].dezena = TwoDigits(k)
                /\ df_analise_dezenas[k].dezena_int = k
                /\ k \notin drawn => df_analise_dezenas[k].ocorrencias = 0

C8_Witness ==
    /\ caminho = "fresh"
    /\ data_bruta = <<>>
    /\ Len(df_analise_dezenas) = 60
    /\ df_analise_dezenas[60].dezena = <<"6", "0">>
    /\ df_analise_dezenas[60].ocorrencias = 0

C10_SameBucket ==
    caminho = "fresh" =>
        \A x, y \in EntradasCruas(data_bruta) :
            LET g == Entrada(data_bruta, x)
                h == Entrada(data_bruta, y)
            IN  (/\ x # y
                 /\ EntradaValida(g) /\ EntradaValida(h)
                 /\ SameModuloCase(g.uf.s, h.uf.s)
                 /\ SameModuloCase(g.municipio.s, h.municipio.s))
                => /\ Cardinality(Buckets(g)) = 1
                   /\ Buckets(h) = Buckets(g)
                   /\ \A i \in Buckets(g) :
                        df_analise_premios[i].vezes_premiado
                            >= Quantidade(g) + Quantidade(h)

C10_Witness ==
    /\ caminho = "fresh"
    /\ Len(data_bruta) = 2
    /\ data_bruta[1].localGanhadores = G1
    /\ data_bruta[2].localGanhadores = G2
    /\ Len(df_analise_premios) = 1
    /\ df_analise_premios[1].uf = <<"S", "P">>
    /\ df_analise_premios[1].municipio = <<"U", "B">>
    /\ df_analise_premios[1].vezes_premiado = 3

\* C11: in every aggregate process_premios_dataframe returns, the
\* total_premios_estado of a row is the sum of vezes_premiado over all the
\* rows of the aggregate that have the row's state.
C11_StateSubtotal ==
    \A i \in 1..Len(df_analise_premios) :
        df_analise_premios[i].total_premios_estado
            = SomaValores([j \in {n \in 1..Len(df_analise_premios) :
                                    df_analise_premios[n].uf = df_analise_premios[i].uf}
                            |-> df_analise_premios[j].vezes_premiado])

\* C12: a call of process_premios_dataframe leaves its input table as it
\* was, and a second call on the same table returns the aggregate the first
\* call returned.
C12_IdempotentNoSideEffect ==
    [][(pc = "tabela" \/ pc = "agregado") =>
        (/\ df_premios_raw' = df_premios_raw
         /\ (pc = "agregado" => df_analise_premios' = df_analise_premios))]_vars

C15_MalformedSkipped ==
    LET answered == pedidos # <<>> /\ pedidos[Len(pedidos)].ok
        bons == SelectSeq(pedidos[Len(pedidos)].json, WellFormedRecord)
    IN  answered =>
            /\ pc # "abortado"
            /\ df_analise_premios
                = process_premios_dataframe(
                    LoopSorteios(bons, <<>>, ContagemInicial).registros_premios)
            /\ df_analise_dezenas
                = TabelaDezenas(LoopSorteios(bons, <<>>, ContagemInicial).contagem_dezenas)
            /\ pc = "analisado" =>
                    mapa_sorteios = analisar_repeticao_jogos(bons).mapa

\* C16: analisar_sorteios_gerais returns for every non-empty draw list, the
\* lists in which no record has a 'data' key included: a record without a
\* date, or with one that is not DD/MM/YYYY, is counted in total_sorteios,
\* and the first and last draw are the earliest and latest of the dates that
\* parse, 'N/A' when none does.
C16_DatesNeverRaise ==
    (pc = "gerais_feito" /\ data_bruta # <<>>) =>
        LET dated == Dated(data_bruta)
            DateOf(i) == KnownDates[data_bruta[i].data.s].ymd
            TextOf(i) == KnownDates[data_bruta[i].data.s].text
        IN  /\ analise_geral.retorno = "dict"
            /\ analise_geral.total_sorteios = Len(data_bruta)
            /\ dated = {} =>
                /\ analise_geral.primeiro_sorteio = <<"N", "/", "A">>
                /\ analise_geral.ultimo_sorteio = <<"N", "/", "A">>
            /\ \A i \in dated :
                /\ (\A j \in dated : Earlier(DateOf(i), DateOf(j)))
                    => analise_geral.primeiro_sorteio = TextOf(i)
                /\ (\A j \in dated : Earlier(DateOf(j), DateOf(i)))
                    => analise_geral.ultimo_sorteio = TextOf(i)

\* C17: when the API is unavailable (every request of the call raises, times
\* out or gets a non-success status), load_and_process_data gives zero
\* draws whether or not the two files are there: the raw draw list and the
\* two tables it returns are empty, so that analisar_repeticao_jogos gives
\* (0, {}) and sugerir_jogos gives {}.
C17_UnavailableZeroDraws ==
    (/\ pc = "carregado"
     /\ \A i \in 1..Len(pedidos) : pedidos[i].falha # "nenhuma")
        => /\ data_bruta = <<>>
           /\ df_analise_dezenas = <<>>
           /\ df_analise_premios = <<>>
           /\ analisar_repeticao_jogos(data_bruta) = [total |-> 0, mapa |-> <<>>]

\* C18: the files are never authoritative: whenever load_and_process_data
\* returns a non-empty raw draw list, the frequency table and the prize
\* aggregate it returns are the ones computed from that draw list, also
\* when the two files were written from an older draw list.
C18_CacheNotAuthoritative ==
    (pc = "carregado" /\ data_bruta # <<>>) =>
        LET r == LoopSorteios(data_bruta, <<>>, ContagemInicial)
            dezenas == TabelaDezenas(r.contagem_dezenas)
        IN  /\ df_analise_premios = process_premios_dataframe(r.registros_premios)
            /\ Len(df_analise_dezenas) = Len(dezenas)
            /\ \A k \in 1..Len(dezenas) :
                /\ df_analise_dezenas[k].dezena_int = dezenas[k].dezena_int
                /\ df_analise_dezenas[k].ocorrencias = dezenas[k].ocorrencias

\* C19: for a frequency table of at least 10 rows and any N >= 1, the call
\* returns exactly N combinations in each of the three categories; every
\* high-frequency combination lies within ten numbers of highest count, every
\* low-frequency combination within ten numbers of lowest count, and every
\* mixed combination has three numbers of the former and three of the latter.
C19_SuggestionStrata ==
    Len(df_analise_dezenas) >= 10 =>
        /\ pc = "sugerido" =>
               /\ sugestoes = "dict"
               /\ jogos_len = [mais |-> num_jogos, menos |-> num_jogos, misto |-> num_jogos]
        /\ pc # "sugerir" =>
               /\ SplitsByCount(10)
               /\ SplitsByCount(Len(df_sorted) - 10)
               /\ \A c \in {"mais", "menos", "misto"} : jogos_len[c] <= num_jogos
        /\ LastIsHigh =>
               /\ Len(KeyNumbers(jogo_norm)) = 6
               /\ \A i \in 1..6 : KeyNumbers(jogo_norm)[i] \in HighStratum
        /\ LastIsLow =>
               /\ Len(KeyNumbers(jogo_norm)) = 6
               /\ \A i \in 1..6 : KeyNumbers(jogo_norm)[i] \in LowStratum
        /\ LastIsMixed => ThreeAndThree(KeyNumbers(jogo_norm), HighStratum, LowStratum)

\* the call has returned two combinations per category for a table of twelve
\* rows, the last one with a number that only the high stratum holds and a
\* number that only the low stratum holds
C19_Witness ==
    /\ pc = "sugerido"
    /\ sugestoes = "dict"
    /\ num_jogos = 2
    /\ Len(df_analise_dezenas) >= 10
    /\ \E i, j \in 1..6 :
           /\ KeyNumbers(jogo_norm)[i] \in HighStratum \ LowStratum
           /\ KeyNumbers(jogo_norm)[j] \in LowStratum \ HighStratum

\* C20: the combinations of one category are pairwise distinct: a pass of a
\* loop never appends to a category list the key the pass before appended to it.
C20_PairwiseDistinct ==
    [][((pc = "mais" \/ pc = "menos" \/ pc = "misto")
            /\ jogo_norm # <<>>
            /\ jogos_len[pc] >= 1
            /\ jogos_len'[pc] = jogos_len[pc] + 1)
        => (jogo_norm' # jogo_norm)]_vars

\* C21: when fewer than 6 distinct numbers have a nonzero count in the
\* frequency table, the call produces no combination: it samples nothing and
\* returns the empty result.
C21_InsufficientData ==
    (Cardinality(Represented) < 6 /\ pc # "sugerir") =>
        /\ pc = "sugerido"
        /\ sugestoes = "vazio"
        /\ jogo_norm = <<>>
        /\ jogos_len = [mais |-> 0, menos |-> 0, misto |-> 0]

\* C22: checking a suggestion against the history is a read-only query: a
\* call of verificar_sugestao_historico leaves the index as it was, its keys
\* and every list of contests, whether the suggestion is in it or not, and
\* however many calls came before.
C22_LookupReadOnly ==
    [][(consultas' # consultas) => (mapa_sorteios' = mapa_sorteios)]_vars

\* two suggestions were checked against a non-empty index, one that is in it
\* and one that is not
C22_Witness ==
    /\ Len(consultas) = 2
    /\ DOMAIN mapa_sorteios # {}
    /\ \E i, j \in 1..2 :
           /\ consultas[i] \in DOMAIN mapa_sorteios
           /\ consultas[j] \notin DOMAIN mapa_sorteios

\* C23: the winner list is found under the older key names too: a draw list
\* whose winner entries sit under 'rateio' -> 'ganhadores_cidade' with
\* 'cidade'/'uf' gives the prize aggregate that the same entries under
\* 'localGanhadores' with 'municipio'/'uf' give.
C23_OlderKeyNames ==
    (pc # "inicio" /\ caminho = "fresh") =>
        df_analise_premios = ProcessarFresh(UnderLocalGanhadores(data_bruta)).premios

\* C24: every key of the index built by analisar_repeticao_jogos denotes a
\* combination of exactly 6 distinct integers in 1..60, written as six
\* two-digit fields in ascending numeric order joined by '-'.
C24_KeysAreCombinations ==
    \A key \in DOMAIN mapa_sorteios : WellFormedKey(key)

\* C25: over every sequence of reruns caused by slider changes, clicks on the
\* button and other widget events, where the suggestions are displayed each
\* category list of st.session_state['jogos_sugeridos'] has exactly
\* num_sugestoes entries, num_sugestoes being the slider value of that rerun.
C25_SessionLengths ==
    pc = "exibido" =>
        /\ session_state.jogos_sugeridos.present
        /\ session_state.jogos_sugeridos.n = num_sugestoes
        /\ exibido.jogos = session_state.jogos_sugeridos
        /\ exibido.num_sugestoes = num_sugestoes

\* the suggestions are displayed after the slider went from one value off
\* its default to another one
C25_Witness ==
    /\ pc = "exibido"
    /\ exibido.antes = 2
    /\ num_sugestoes = 3
    /\ session_state.jogos_sugeridos.n = 3
    /\ session_state.last_num_sugestoes.present

\* C26: a rerun in which the button is not clicked and the slider has the
\* value it had in the previous rerun leaves
\* st.session_state['jogos_sugeridos'] unchanged, whatever reruns came before.
C26_SuggestionsPersist ==
    [][(pc = "rerun" /\ exibido.present /\ ~botao
            /\ num_sugestoes = exibido.num_sugestoes)
        => (session_state'.jogos_sugeridos = session_state.jogos_sugeridos)]_vars

\* a rerun without a click was run with the slider at 3, as in the run before
C26_Witness ==
    /\ pc = "exibido"
    /\ ~botao
    /\ exibido.antes = 3
    /\ exibido.num_sugestoes = 3
    /\ session_state.jogos_sugeridos = Guardado(3, 2)

\* C27: every combination sugerir_jogos produces, in every category and for
\* every frequency table of at least 6 rows (tables of 10 to 19 rows
\* included), consists of 6 distinct numbers.
C27_SixDistinctNumbers ==
    (Len(df_analise_dezenas) >= 6 /\ jogo_norm # <<>>) =>
        /\ Len(KeyNumbers(jogo_norm)) = 6
        /\ Cardinality({KeyNumbers(jogo_norm)[i] : i \in 1..6}) = 6

\* C28: when the state has more municipalities than the requested top N, the
\* pie shows the N most-awarded ones and an 'OUTROS' segment that holds the
\* winner counts of the others: the N counts and the OUTROS count add up to
\* the state's total winner count.
C28_OutrosIsTheRest ==
    (pizza.retorno = "fig" /\ Len(RowsOfState(pizza.estado)) > pizza.top_n) =>
        /\ Len(pizza.df_pizza) = pizza.top_n + 1
        /\ ShowsTopN(pizza.estado, pizza.top_n)
        /\ TotalOfCounts(pizza.df_pizza) = TotalOfCounts(RowsOfState(pizza.estado))

\* C29: load_and_process_data returns a non-empty frequency table or prize
\* aggregate only if a request of that call got a response whose body parsed
\* as JSON; when both files exist and can be read but every request of the
\* call raises, the three results are empty and the tables of the files are
\* not used.
C29_TablesNeedAResponse ==
    pc = "carregado" =>
        /\ (df_analise_dezenas # <<>> \/ df_analise_premios # <<>>)
               => \E i \in 1..Len(pedidos) : pedidos[i].corpo_json
        /\ (\A i \in 1..Len(pedidos) : pedidos[i].falha = "conexao")
               => /\ data_bruta = <<>>
                  /\ df_analise_dezenas = <<>>
                  /\ df_analise_premios = <<>>

\* a second server run found both files, with rows, and both its requests
\* failed to connect
C29_Witness ==
    /\ pc = "carregado"
    /\ execucao = 2
    /\ csv_premios.existe /\ csv_premios.linhas # <<>>
    /\ csv_dezenas.existe /\ csv_dezenas.linhas # <<>>
    /\ Len(pedidos) = 2
    /\ \A i \in 1..2 : pedidos[i].falha = "conexao"
    /\ df_analise_dezenas = <<>>

====
